---- MODULE Spec2Model ----
(***************************************************************************)
(* Model of github.com/ActiveState/langtools/pkg/version: the Version      *)
(* value, its comparator, Clone, and the parsers that build Versions.      *)
(*                                                                         *)
(* Numbers.  TLC integers are 32 bit, the program's are int64 and          *)
(* arbitrary-precision decimals, so both are modelled by their digits:     *)
(*   int64        [neg, mag]            mag canonical (no leading zeros)   *)
(*   decimal.Big  [neg, digits, scale]  value = digits * 10^-scale         *)
(* A Go slice is [isNil, elems]; a nil slice has length 0.                 *)
(***************************************************************************)
EXTENDS Integers, Sequences, FiniteSets, TLC

\* ------------------------------------------------------------------ bounds
MaxLen == 2

\* ------------------------------------------------------------ digit helpers
StripLeadingZeros(d) ==
    LET nonzero == SelectSeq([i \in 1..Len(d) |-> i], LAMBDA i : d[i] # 0)
    IN  IF nonzero = <<>> THEN (IF d = <<>> THEN d ELSE <<0>>)
        ELSE SubSeq(d, nonzero[1], Len(d))

Zeros(n) == [i \in 1..n |-> 0]

\* comparison of two canonical magnitudes: -1, 0, 1
CmpMag(a, b) ==
    IF Len(a) # Len(b) THEN (IF Len(a) < Len(b) THEN -1 ELSE 1)
    ELSE IF a = b THEN 0
    ELSE LET i == CHOOSE k \in 1..Len(a) :
                     a[k] # b[k] /\ \A j \in 1..(k-1) : a[j] = b[j]
         IN  IF a[i] < b[i] THEN -1 ELSE 1

IsZeroMag(d) == \A i \in 1..Len(d) : d[i] = 0

\* ------------------------------------------------------------------- int64
\* v1.Ints[i] < v2.Ints[i] on int64 values
Int64Less(a, b) ==
    IF a.neg # b.neg THEN a.neg
    ELSE IF a.neg THEN CmpMag(a.mag, b.mag) = 1
    ELSE CmpMag(a.mag, b.mag) = -1

Int64Zero == [neg |-> FALSE, mag |-> <<0>>]

\* ------------------------------------------------------------- decimal.Big
\* decimal.New(value, scale) with scale 0, value an int64
decimalNew(n) == [neg |-> n.neg, digits |-> n.mag, scale |-> 0]

bigZero == decimalNew(Int64Zero)

\* (*decimal.Big).Cmp: numeric comparison, -1, 0 or 1
BigCmp(a, b) ==
    LET s  == IF a.scale > b.scale THEN a.scale ELSE b.scale
        ma == StripLeadingZeros(a.digits \o Zeros(s - a.scale))
        mb == StripLeadingZeros(b.digits \o Zeros(s - b.scale))
        za == IsZeroMag(ma)
        zb == IsZeroMag(mb)
    IN  IF za /\ zb THEN 0
        ELSE IF za THEN (IF b.neg THEN 1 ELSE -1)
        ELSE IF zb THEN (IF a.neg THEN -1 ELSE 1)
        ELSE IF a.neg # b.neg THEN (IF a.neg THEN -1 ELSE 1)
        ELSE IF a.neg THEN 0 - CmpMag(ma, mb)
        ELSE CmpMag(ma, mb)

\* ------------------------------------------------------------------ slices
NilSlice == [isNil |-> TRUE, elems |-> <<>>]
Slice(s) == [isNil |-> FALSE, elems |-> s]

\* --------------------------------------------------------------- ParsedAs
ParsedAsValues ==
    {"Unknown", "Generic", "SemVer", "PerlDecimal", "PerlVString", "PHP",
     "PythonLegacy", "PythonPEP440", "Ruby", "Go"}

\* ---------------------------------------------------------------- Version
Version(original, ints, decimal, pa) ==
    [Original |-> original, Ints |-> ints, Decimal |-> decimal, ParsedAs |-> pa]

\* --------------------------------------------------------- trailing zeros
\* the loop of trimTrailingZerosInts from index i down: it stops at the
\* last element that is not zero, or at index 1
trimIntsLoop(ints, i, indexOfLastZero) ==
    LET nonzero == SelectSeq([j \in 1..i |-> j], LAMBDA j : ints[j + 1] # Int64Zero)
        last    == nonzero[Len(nonzero)]
    IN  IF nonzero # <<>> THEN (IF last = i THEN indexOfLastZero ELSE last + 1)
        ELSE IF i > 0 THEN 1
        ELSE indexOfLastZero

\* mutant: the loop stops before the second element
trimTrailingZerosIntsKeepTwo(ints) ==
    LET n == trimIntsLoop(ints, Len(ints) - 1, Len(ints))
    IN  SubSeq(ints, 1, IF Len(ints) >= 2 /\ n < 2 THEN 2 ELSE n)

trimTrailingZerosInts(ints) ==
    SubSeq(ints, 1, trimIntsLoop(ints, Len(ints) - 1, Len(ints)))

\* the loop of trimTrailingZerosDecimals, in the same way
trimDecimalsLoop(decimals, i, indexOfLastZero) ==
    LET nonzero == SelectSeq([j \in 1..i |-> j],
                             LAMBDA j : BigCmp(decimals[j + 1], bigZero) # 0)
        last    == nonzero[Len(nonzero)]
    IN  IF nonzero # <<>> THEN (IF last = i THEN indexOfLastZero ELSE last + 1)
        ELSE IF i > 0 THEN 1
        ELSE indexOfLastZero

\* trimTrailingZerosDecimals letting the cut reach the first element
trimTrailingZerosDecimalsToEmpty(decimals) ==
    SubSeq(decimals, 1, trimDecimalsLoop(decimals, Len(decimals) - 1, Len(decimals)) - 1)

trimTrailingZerosDecimals(decimals) ==
    SubSeq(decimals, 1, trimDecimalsLoop(decimals, Len(decimals) - 1, Len(decimals)))

\* ---------------------------------------------------------------- Compare
Panicked == 2

\* mutant: the decimals are made from the magnitudes of the integers
promoteDecimalsUnsigned(v) ==
    Slice([i \in 1..Len(v.Ints.elems) |->
              decimalNew([v.Ints.elems[i] EXCEPT !.neg = FALSE])])

promoteDecimals(v) ==
    Slice([i \in 1..Len(v.Ints.elems) |-> decimalNew(v.Ints.elems[i])])

\* mutant: the longer side is never reported as the second argument
minMaxDecimalsNoFlip(v1, v2) ==
    LET l1 == Len(v1.elems)
        l2 == Len(v2.elems)
    IN  IF l1 < l2
        THEN [min |-> l1, max |-> l2, longest |-> v2.elems, flip |-> 1]
        ELSE [min |-> l2, max |-> l1, longest |-> v1.elems, flip |-> 1]

minMaxDecimals(v1, v2) ==
    LET l1 == Len(v1.elems)
        l2 == Len(v2.elems)
    IN  IF l1 < l2
        THEN [min |-> l1, max |-> l2, longest |-> v2.elems, flip |-> -1]
        ELSE [min |-> l2, max |-> l1, longest |-> v1.elems, flip |-> 1]

\* mutant: the tail of the longer sequence is never looked at
minMaxIntsNoTail(v1, v2) ==
    LET l1 == Len(v1.elems)
        l2 == Len(v2.elems)
    IN  IF l1 < l2
        THEN [min |-> l1, max |-> l1, longest |-> v2.elems, flip |-> -1]
        ELSE [min |-> l2, max |-> l2, longest |-> v1.elems, flip |-> 1]

minMaxInts(v1, v2) ==
    LET l1 == Len(v1.elems)
        l2 == Len(v2.elems)
    IN  IF l1 < l2
        THEN [min |-> l1, max |-> l2, longest |-> v2.elems, flip |-> -1]
        ELSE [min |-> l2, max |-> l1, longest |-> v1.elems, flip |-> 1]

\* second loop of compareDecimals: i from min to max-1 (0-based)
RECURSIVE compareDecimalsTail(_, _)
compareDecimalsTail(mm, i) ==
    IF i < mm.max
    THEN LET cmp == BigCmp(mm.longest[i + 1], bigZero)
         IN  IF cmp # 0 THEN cmp * mm.flip
             ELSE compareDecimalsTail(mm, i + 1)
    ELSE 0

\* first loop of compareDecimals: d1, d2 are v1.Decimal, v2.Decimal as the
\* loop reads them; an index past either length is a run-time panic
RECURSIVE compareDecimalsLoop(_, _, _, _)
compareDecimalsLoop(d1, d2, mm, i) ==
    IF i < mm.min
    THEN IF i >= Len(d1.elems) \/ i >= Len(d2.elems) THEN Panicked
         ELSE LET cmp == BigCmp(d1.elems[i + 1], d2.elems[i + 1])
              IN  IF cmp # 0 THEN cmp
                  ELSE compareDecimalsLoop(d1, d2, mm, i + 1)
    ELSE compareDecimalsTail(mm, mm.min)

compareDecimals(v1, v2) ==
    compareDecimalsLoop(v1.Decimal, v2.Decimal,
                        minMaxDecimals(v1.Decimal, v2.Decimal), 0)

RECURSIVE compareIntsTail(_, _)
compareIntsTail(mm, i) ==
    IF i < mm.max
    THEN IF mm.longest[i + 1] # Int64Zero
         THEN IF Int64Less(mm.longest[i + 1], Int64Zero)
              THEN -1 * mm.flip
              ELSE mm.flip
         ELSE compareIntsTail(mm, i + 1)
    ELSE 0

RECURSIVE compareIntsLoop(_, _, _, _)
compareIntsLoop(i1, i2, mm, i) ==
    IF i < mm.min
    THEN IF i1.elems[i + 1] # i2.elems[i + 1]
         THEN IF Int64Less(i1.elems[i + 1], i2.elems[i + 1]) THEN -1 ELSE 1
         ELSE compareIntsLoop(i1, i2, mm, i + 1)
    ELSE compareIntsTail(mm, mm.min)

\* mutant: the sign of a negative tail is not applied
compareIntsTailUnsigned(v1, v2) ==
    LET mm == minMaxInts(v1.Ints, v2.Ints)
        r  == compareIntsLoop(v1.Ints, v2.Ints, mm, 0)
    IN  IF \A i \in 1..mm.min : v1.Ints.elems[i] = v2.Ints.elems[i]
        THEN (IF r = 0 THEN 0 ELSE mm.flip)
        ELSE r

compareInts(v1, v2) ==
    compareIntsLoop(v1.Ints, v2.Ints, minMaxInts(v1.Ints, v2.Ints), 0)

\* mutant: an integer Version is compared by compareInts whatever the other is
CompareNoPromote(v1, v2) ==
    IF ~v1.Decimal.isNil /\ ~v2.Decimal.isNil
    THEN compareDecimals(v1, v2)
    ELSE compareInts(v1, v2)

\* Compare as one sequential call: its return value
Compare(v1, v2) ==
    IF ~v1.Decimal.isNil /\ ~v2.Decimal.isNil
    THEN compareDecimals(v1, v2)
    ELSE IF ~v1.Decimal.isNil /\ v2.Decimal.isNil
    THEN compareDecimals(v1, [v2 EXCEPT !.Decimal = promoteDecimals(v2)])
    ELSE IF v1.Decimal.isNil /\ ~v2.Decimal.isNil
    THEN compareDecimals([v1 EXCEPT !.Decimal = promoteDecimals(v1)], v2)
    ELSE compareInts(v1, v2)

\* ------------------------------------------------------------ sample values
MkInt64(neg, mag) == [neg |-> neg, mag |-> mag]
MkBig(neg, digits, scale) == [neg |-> neg, digits |-> digits, scale |-> scale]

\* int64 segments -1, 0, 1
IntVals == {MkInt64(TRUE, <<1>>), Int64Zero, MkInt64(FALSE, <<1>>)}
\* decimal segments -0.5, 0, 1.0
DecVals == {MkBig(TRUE, <<5>>, 1), bigZero, MkBig(FALSE, <<1, 0>>, 1)}

SeqsUpTo(S, n) == UNION {[1..k -> S] : k \in 0..n}

IntVersions ==
    {Version(<<>>, IF s = <<>> THEN NilSlice ELSE Slice(s), NilSlice, "Generic") :
        s \in SeqsUpTo(IntVals, MaxLen)}
DecVersions ==
    {Version(<<>>, NilSlice, Slice(s), "Generic") : s \in SeqsUpTo(DecVals, MaxLen)}
CmpVersions == IntVersions \cup DecVersions

\* ---------------------------------------------- arithmetic reading of values
\* twice the value of a segment, as an integer (the sample values are
\* multiples of 1/2)
RECURSIVE MagToNat(_)
MagToNat(d) == IF d = <<>> THEN 0 ELSE 10 * MagToNat(SubSeq(d, 1, Len(d) - 1)) + d[Len(d)]

RECURSIVE Pow10(_)
Pow10(n) == IF n = 0 THEN 1 ELSE 10 * Pow10(n - 1)

Int64Halves(n) == (IF n.neg THEN -1 ELSE 1) * 2 * MagToNat(n.mag)
BigHalves(d) == (IF d.neg THEN -1 ELSE 1) * ((2 * MagToNat(d.digits)) \div Pow10(d.scale))

\* the segment sequence of a Version, each segment read as twice its value
Segs(v) ==
    IF ~v.Decimal.isNil
    THEN [i \in 1..Len(v.Decimal.elems) |-> BigHalves(v.Decimal.elems[i])]
    ELSE [i \in 1..Len(v.Ints.elems) |-> Int64Halves(v.Ints.elems[i])]

Sign(n) == IF n < 0 THEN -1 ELSE IF n > 0 THEN 1 ELSE 0

RECURSIVE StripAllTrailingZeros(_)
StripAllTrailingZeros(s) ==
    IF s # <<>> /\ s[Len(s)] = 0
    THEN StripAllTrailingZeros(SubSeq(s, 1, Len(s) - 1))
    ELSE s

\* ================================================================= strings
\* A string is a sequence of characters; a character is a one-rune string.
\* "e'" is U+00E9, "'" is the combining acute accent U+0301 and "CJK" is
\* U+5C0F; NBSP is the separator U+00A0.
DigitChars == <<"0", "1", "2", "3", "4", "5", "6", "7", "8", "9">>
LowerChars == <<"a", "b", "c", "d", "e", "f", "g", "h", "i", "j", "k", "l", "m",
                "n", "o", "p", "q", "r", "s", "t", "u", "v", "w", "x", "y", "z">>
UpperChars == <<"A", "B", "C", "D", "E", "F", "G", "H", "I", "J", "K", "L", "M",
                "N", "O", "P", "Q", "R", "S", "T", "U", "V", "W", "X", "Y", "Z">>

Range(f) == {f[i] : i \in DOMAIN f}
IndexOf(f, c) == CHOOSE i \in DOMAIN f : f[i] = c

IsDigit(c) == c \in Range(DigitChars)
IsLower(c) == c \in Range(LowerChars)
IsUpper(c) == c \in Range(UpperChars)
DigitVal(c) == IndexOf(DigitChars, c) - 1

\* the other characters with their code points
OtherChars ==
    << <<" ", 32>>, <<"!", 33>>, <<"*", 42>>, <<"+", 43>>, <<"-", 45>>,
       <<".", 46>>, <<":", 58>>, <<"@", 64>>, <<"_", 95>>, <<"~", 126>>,
       <<"NBSP", 160>>, <<"e'", 233>>, <<"'", 769>>, <<"CJK", 23567>> >>

\* the Unicode code point of a character
Codepoint(c) ==
    IF IsDigit(c) THEN 47 + IndexOf(DigitChars, c)
    ELSE IF IsUpper(c) THEN 64 + IndexOf(UpperChars, c)
    ELSE IF IsLower(c) THEN 96 + IndexOf(LowerChars, c)
    ELSE OtherChars[CHOOSE i \in DOMAIN OtherChars : OtherChars[i][1] = c][2]

\* unicode.ToLower on one character
ToLowerChar(c) == IF IsUpper(c) THEN LowerChars[IndexOf(UpperChars, c)] ELSE c
\* strings.ToLower
ToLower(s) == [i \in 1..Len(s) |-> ToLowerChar(s[i])]

\* membership of [\p{P}\p{Z}]: Unicode punctuation and separators ("+" and
\* "~" are symbols, not punctuation)
anyPunctuationOrSeparator == {" ", "!", "*", "-", ".", ":", "@", "_", "NBSP"}

\* the concatenation of ss[lo], ..., ss[hi], made of its two halves
RECURSIVE FlattenRange(_, _, _)
FlattenRange(ss, lo, hi) ==
    IF lo > hi THEN <<>>
    ELSE IF lo = hi THEN ss[lo]
    ELSE FlattenRange(ss, lo, (lo + hi) \div 2)
             \o FlattenRange(ss, (lo + hi) \div 2 + 1, hi)

\* the concatenation of the sequences of ss
Flatten(ss) == (CHOOSE result \in {FlattenRange(v, 1, Len(v)) : v \in {ss}} : TRUE)

\* strings.TrimLeft(s, cutset) and strings.TrimRight(s, cutset)
TrimLeft(s, cutset) ==
    LET keep == SelectSeq([i \in 1..Len(s) |-> i], LAMBDA i : s[i] \notin cutset)
    IN  IF keep = <<>> THEN <<>> ELSE SubSeq(s, keep[1], Len(s))

TrimRight(s, cutset) ==
    LET keep == SelectSeq([i \in 1..Len(s) |-> i], LAMBDA i : s[i] \notin cutset)
    IN  IF keep = <<>> THEN <<>> ELSE SubSeq(s, 1, keep[Len(keep)])

\* strings.TrimPrefix(s, prefix)
TrimPrefix(s, prefix) ==
    IF Len(s) >= Len(prefix) /\ SubSeq(s, 1, Len(prefix)) = prefix
    THEN SubSeq(s, Len(prefix) + 1, Len(s))
    ELSE s

\* strings.Split(s, sep) for a one-character sep: always at least one field
Split(s, sep) ==
    LET fields(at) ==
            [k \in 1..(Len(at) + 1) |->
                SubSeq(s, IF k = 1 THEN 1 ELSE at[k - 1] + 1,
                          IF k = Len(at) + 1 THEN Len(s) ELSE at[k] - 1)]
    IN  (CHOOSE result \in {fields(value) : value \in {SelectSeq([i \in 1..Len(s) |-> i], LAMBDA i : s[i] = sep)}} : TRUE)

\* the pieces of s that end at the positions ends, and the rest of s
CutAfter(s, ends) ==
    LET pieces(at) ==
            [k \in 1..(Len(at) + 1) |->
                SubSeq(s, IF k = 1 THEN 1 ELSE at[k - 1] + 1,
                          IF k = Len(at) + 1 THEN Len(s) ELSE at[k])]
    IN  (CHOOSE result \in {pieces(value) : value \in {ends}} : TRUE)

\* strings.ReplaceAll(s, old, "") for a one-character old
RemoveAll(s, old) == SelectSeq(s, LAMBDA c : c # old)

\* (*Regexp).Split(s, -1) for a regexp matching the non-empty runs of the
\* characters of class: the substrings between the matches
SplitRuns(s, class) ==
    LET starts == SelectSeq([i \in 1..Len(s) |-> i], LAMBDA i :
                      s[i] \in class /\ (i = 1 \/ s[i - 1] \notin class))
        ends   == SelectSeq([i \in 1..Len(s) |-> i], LAMBDA i :
                      s[i] \in class /\ (i = Len(s) \/ s[i + 1] \notin class))
        fields(runs) ==
            [k \in 1..(Len(runs[1]) + 1) |->
                SubSeq(s, IF k = 1 THEN 1 ELSE runs[2][k - 1] + 1,
                          IF k = Len(runs[1]) + 1 THEN Len(s) ELSE runs[1][k] - 1)]
    IN  (CHOOSE result \in {fields(value) : value \in {<<starts, ends>>}} : TRUE)

\* fmt.Sprintf("%d", n) for n >= 0
RECURSIVE NatToStr(_)
NatToStr(n) ==
    IF n < 10 THEN <<DigitChars[n + 1]>>
    ELSE Append(NatToStr(n \div 10), DigitChars[(n % 10) + 1])

\* mutant: the code point is written without padding
Pad10Unpadded(n) == NatToStr(n)

\* fmt.Sprintf("%010d", n) for n >= 0
Pad10(n) ==
    LET d == NatToStr(n)
    IN  IF Len(d) >= 10 THEN d ELSE [i \in 1..(10 - Len(d)) |-> "0"] \o d

IsDigits(s) == s # <<>> /\ \A i \in 1..Len(s) : IsDigit(s[i])

\* ------------------------------------------------------- segment primitives
\* norm.NFC.String: "e" followed by the combining acute composes to U+00E9
normalizeUnicode(s) ==
    Flatten([i \in 1..Len(s) |->
                IF i > 1 /\ s[i] = "'" /\ s[i - 1] = "e" THEN <<>>
                ELSE IF s[i] = "e" /\ i < Len(s) /\ s[i + 1] = "'" THEN <<"e'">>
                ELSE <<s[i]>>])

\* decimalNumber: ^(\d+\.\d*|\.?\d+)$
isNumber(s) ==
    \/ \E k \in 1..Len(s) :
          /\ s[k] = "."
          /\ IsDigits(SubSeq(s, 1, k - 1))
          /\ \A i \in (k + 1)..Len(s) : IsDigit(s[i])
    \/ IsDigits(s)
    \/ (s # <<>> /\ s[1] = "." /\ IsDigits(Tail(s)))

\* notZero: [^0]
notZero(s) == \E i \in 1..Len(s) : s[i] # "0"

normalizeDecimal(s) ==
    LET normalized(parts) ==
            IF notZero(parts[1]) THEN TrimLeft(parts[1], {"0"}) ELSE <<"0">>
        join(parts) ==
            IF Len(parts) = 2 /\ notZero(parts[2])
            THEN normalized(parts) \o <<".">> \o TrimRight(parts[2], {"0"})
            ELSE normalized(parts)
    IN  (CHOOSE result \in {join(value) : value \in {Split(s, ".")}} : TRUE)

RECURSIVE toDecimalStringRest(_)
toDecimalStringRest(s) ==
    IF s = <<>> THEN <<>>
    ELSE Pad10(Codepoint(s[1])) \o toDecimalStringRest(Tail(s))

toDecimalString(s) ==
    IF s = <<>> THEN <<>>
    ELSE IF Len(s) = 1 THEN NatToStr(Codepoint(s[1]))
    ELSE NatToStr(Codepoint(s[1])) \o <<".">> \o toDecimalStringRest(Tail(s))

genericPreReleaseIdentifiers ==
    << <<<<"a", "l", "p", "h", "a">>, <<"-", "2", "6">>>>,
       <<<<"b", "e", "t", "a">>, <<"-", "2", "5">>>>,
       <<<<"g", "a", "m", "m", "a">>, <<"-", "2", "4">>>>,
       <<<<"d", "e", "l", "t", "a">>, <<"-", "2", "3">>>>,
       <<<<"e", "p", "s", "i", "l", "o", "n">>, <<"-", "2", "2">>>>,
       <<<<"z", "e", "t", "a">>, <<"-", "2", "1">>>>,
       <<<<"e", "t", "a">>, <<"-", "2", "0">>>>,
       <<<<"t", "h", "e", "t", "a">>, <<"-", "1", "9">>>>,
       <<<<"i", "o", "t", "a">>, <<"-", "1", "8">>>>,
       <<<<"k", "a", "p", "p", "a">>, <<"-", "1", "7">>>>,
       <<<<"l", "a", "m", "b", "d", "a">>, <<"-", "1", "6">>>>,
       <<<<"m", "u">>, <<"-", "1", "5">>>>,
       <<<<"n", "u">>, <<"-", "1", "4">>>>,
       <<<<"x", "i">>, <<"-", "1", "3">>>>,
       <<<<"o", "m", "i", "c", "r", "o", "n">>, <<"-", "1", "2">>>>,
       <<<<"p", "i">>, <<"-", "1", "1">>>>,
       <<<<"r", "h", "o">>, <<"-", "1", "0">>>>,
       <<<<"s", "i", "g", "m", "a">>, <<"-", "9">>>>,
       <<<<"t", "a", "u">>, <<"-", "8">>>>,
       <<<<"u", "p", "s", "i", "l", "o", "n">>, <<"-", "7">>>>,
       <<<<"p", "h", "i">>, <<"-", "6">>>>,
       <<<<"c", "h", "i">>, <<"-", "5">>>>,
       <<<<"p", "s", "i">>, <<"-", "4">>>>,
       <<<<"o", "m", "e", "g", "a">>, <<"-", "3">>>>,
       <<<<"p", "r", "e">>, <<"-", "2">>>>,
       <<<<"r", "c">>, <<"-", "1">>>> >>

\* the same with the name looked up as written, not in lower case
toDecimalStringWithCaseSensitiveIdentifierHandling(s) ==
    LET hit == {i \in DOMAIN genericPreReleaseIdentifiers :
                    genericPreReleaseIdentifiers[i][1] = s}
    IN  IF hit # {}
        THEN genericPreReleaseIdentifiers[CHOOSE i \in hit : TRUE][2]
        ELSE toDecimalString(s)

toDecimalStringWithGenericPreReleaseIdentifierHandling(s) ==
    LET l == ToLower(s)
        hit == {i \in DOMAIN genericPreReleaseIdentifiers :
                    genericPreReleaseIdentifiers[i][1] = l}
    IN  IF hit # {}
        THEN genericPreReleaseIdentifiers[CHOOSE i \in hit : TRUE][2]
        ELSE toDecimalString(s)

\* a decimalStringConverter, named by the function passed
decimalStringConverter(convert, s) ==
    IF convert = "toDecimalStringWithGenericPreReleaseIdentifierHandling"
    THEN toDecimalStringWithGenericPreReleaseIdentifierHandling(s)
    ELSE toDecimalString(s)

maybeAppendDecimalString(slice, s, convert) ==
    IF s = <<>> THEN slice
    ELSE Append(slice, (CHOOSE result \in {normalizeDecimal(value) : value \in {IF isNumber(s) THEN s
                            ELSE decimalStringConverter(convert, s)}} : TRUE))

\* wholeNumber.ReplaceAllString(section, "-$1-"): every maximal run of digits
\* is put between two delimiters
bracketWholeNumbers(s) ==
    Flatten([i \in 1..Len(s) |->
                (IF IsDigit(s[i]) /\ (i = 1 \/ ~IsDigit(s[i - 1]))
                 THEN <<"-">> ELSE <<>>)
                \o <<s[i]>>
                \o (IF IsDigit(s[i]) /\ (i = Len(s) \/ ~IsDigit(s[i + 1]))
                    THEN <<"-">> ELSE <<>>)])

\* the inner loop of parseBySeparator: every piece appends to parsed or
\* leaves it as it is
appendPieces(parsed, pieces, convert) ==
    parsed \o Flatten([i \in 1..Len(pieces) |->
                          maybeAppendDecimalString(<<>>, pieces[i], convert)])

\* the outer loop of parseBySeparator
parseSections(parsed, sections, convert) ==
    parsed \o Flatten([i \in 1..Len(sections) |->
                          appendPieces(<<>>,
                                       Split(bracketWholeNumbers(sections[i]), "-"),
                                       convert)])

\* parseBySeparator with separatorRegex = anyPunctuationOrSeparator
parseBySeparator(version, convert) ==
    LET parse(sections) == parseSections(<<>>, sections, convert)
    IN  (CHOOSE result \in {parse(value) : value \in {SplitRuns(version, anyPunctuationOrSeparator)}} : TRUE)

containsGenericPreReleaseIdentifierValue(numbers) ==
    \E i \in 1..Len(numbers) : numbers[i][1] = "-"

\* ------------------------------------------------ strings to numbers
\* the int64 bounds 2^63 - 1 and 2^63
MaxInt64Mag == <<9, 2, 2, 3, 3, 7, 2, 0, 3, 6, 8, 5, 4, 7, 7, 5, 8, 0, 7>>
MinInt64Mag == <<9, 2, 2, 3, 3, 7, 2, 0, 3, 6, 8, 5, 4, 7, 7, 5, 8, 0, 8>>

DigitsOf(s) == [i \in 1..Len(s) |-> DigitVal(s[i])]
\* the characters of a sequence of digits
DigitsToStr(d) == [i \in 1..Len(d) |-> DigitChars[d[i] + 1]]

\* strconv.ParseInt(s, 10, 64): [ok, n]
ParseInt(s) ==
    LET signed == s # <<>> /\ s[1] \in {"+", "-"}
        body   == IF signed THEN Tail(s) ELSE s
        neg    == signed /\ s[1] = "-"
    IN  IF ~IsDigits(body) THEN [ok |-> FALSE, n |-> Int64Zero]
        ELSE LET mag == StripLeadingZeros(DigitsOf(body))
             IN  IF CmpMag(mag, IF neg THEN MinInt64Mag ELSE MaxInt64Mag) = 1
                 THEN [ok |-> FALSE, n |-> Int64Zero]
                 ELSE [ok |-> TRUE,
                       n |-> [neg |-> neg /\ ~IsZeroMag(mag), mag |-> mag]]

\* (*decimal.Big).SetString(s) for the plain notation sign, digits, point,
\* digits: [ok, d]
SetString(s) ==
    LET signed == s # <<>> /\ s[1] \in {"+", "-"}
        body   == IF signed THEN Tail(s) ELSE s
        points == {i \in 1..Len(body) : body[i] = "."}
        point  == IF points = {} THEN Len(body) + 1
                  ELSE CHOOSE i \in points : \A j \in points : i <= j
        ip     == SubSeq(body, 1, point - 1)
        fp     == SubSeq(body, point + 1, Len(body))
        shape  == /\ Cardinality(points) <= 1
                  /\ \A i \in 1..Len(ip) : IsDigit(ip[i])
                  /\ \A i \in 1..Len(fp) : IsDigit(fp[i])
                  /\ Len(ip) + Len(fp) > 0
    IN  IF ~shape THEN [ok |-> FALSE, d |-> bigZero]
        ELSE [ok |-> TRUE,
              d |-> [neg |-> signed /\ s[1] = "-",
                     digits |-> StripLeadingZeros(DigitsOf(ip \o fp)),
                     scale |-> Len(fp)]]

\* ------------------------------------------------------- fromStringSlice
NoVersion == Version(<<>>, NilSlice, NilSlice, "Unknown")
Failure == [err |-> TRUE, v |-> NoVersion]
Success(v) == [err |-> FALSE, v |-> v]

isOnlyInts(strings) == \A i \in 1..Len(strings) : ~(Len(strings[i]) > 18)

\* [err, ints]
stringsToInts(strings) ==
    IF Len(strings) = 0 THEN [err |-> TRUE, ints |-> <<>>]
    ELSE IF \E i \in 1..Len(strings) : ~ParseInt(strings[i]).ok
    THEN [err |-> TRUE, ints |-> <<>>]
    ELSE [err |-> FALSE, ints |-> [i \in 1..Len(strings) |-> ParseInt(strings[i]).n]]

\* [err, decimals]
stringsToDecimals(strings) ==
    IF Len(strings) = 0 THEN [err |-> TRUE, decimals |-> <<>>]
    ELSE IF \E i \in 1..Len(strings) : ~SetString(strings[i]).ok
    THEN [err |-> TRUE, decimals |-> <<>>]
    ELSE [err |-> FALSE,
          decimals |-> [i \in 1..Len(strings) |-> SetString(strings[i]).d]]

makeDecimalVersions(pa, original, strings) ==
    LET r == stringsToDecimals(strings)
    IN  IF r.err THEN Failure
        ELSE Success(Version(original, NilSlice,
                             Slice(trimTrailingZerosDecimals(r.decimals)), pa))

\* mutant: the integer representation is never chosen
fromStringSliceDecimalOnly(pa, original, strings) ==
    makeDecimalVersions(pa, original, strings)

fromStringSlice(pa, original, strings) ==
    IF isOnlyInts(strings) /\ ~stringsToInts(strings).err
    THEN Success(Version(original,
                         Slice(trimTrailingZerosInts(stringsToInts(strings).ints)),
                         NilSlice, pa))
    ELSE makeDecimalVersions(pa, original, strings)

\* ---------------------------------------------------------------- parsers
ParseGeneric(version0) ==
    LET segments(parsed) ==
            IF ~containsGenericPreReleaseIdentifierValue(parsed)
            THEN Append(parsed, <<"0">>)
            ELSE parsed
        parse(version) ==
            fromStringSlice("Generic", version,
                (CHOOSE result \in {segments(value) : value \in {parseBySeparator(version,
                         "toDecimalStringWithGenericPreReleaseIdentifierHandling")}} : TRUE))
    IN  (CHOOSE result \in {parse(value) : value \in {normalizeUnicode(version0)}} : TRUE)

\* ----------------------------------------------------------------- SemVer
maxValue == <<"2", "0", "0", "0", "0", "0", "0">>

\* 0|[1-9]\d*
IsSemVerNumber(s) == IsDigits(s) /\ (Len(s) = 1 \/ s[1] # "0")

\* [0-9a-zA-Z-]
IsSemVerIdChar(c) == IsDigit(c) \/ IsLower(c) \/ IsUpper(c) \/ c = "-"

\* 0|[1-9]\d*|\d*[a-zA-Z-][0-9a-zA-Z-]*
IsSemVerPreReleaseId(s) ==
    /\ s # <<>>
    /\ \A i \in 1..Len(s) : IsSemVerIdChar(s[i])
    /\ (IsDigits(s) => IsSemVerNumber(s))

\* id(\.id)* matching all of s
IsSemVerPreRelease(s) ==
    \A i \in 1..Len(Split(s, ".")) : IsSemVerPreReleaseId(Split(s, ".")[i])

\* [0-9a-zA-Z-]+(\.[0-9a-zA-Z-]+)* matching all of s
IsSemVerBuildMetadata(s) ==
    \A i \in 1..Len(Split(s, ".")) :
        LET id == Split(s, ".")[i]
        IN  id # <<>> /\ \A k \in 1..Len(id) : IsSemVerIdChar(id[k])

\* the position of the first c in s, Len(s) + 1 when there is none
FirstIndex(s, c) ==
    IF \E i \in 1..Len(s) : s[i] = c
    THEN CHOOSE i \in 1..Len(s) : s[i] = c /\ \A j \in 1..(i - 1) : s[j] # c
    ELSE Len(s) + 1

\* semVerRegEx.FindStringSubmatch(version): [ok, major, minor, patch,
\* prerelease]; an unmatched prerelease group is the empty string
semVerRegEx(version) ==
    LET plus   == FirstIndex(version, "+")
        head   == SubSeq(version, 1, plus - 1)
        build  == SubSeq(version, plus + 1, Len(version))
        dash   == FirstIndex(head, "-")
        core   == Split(SubSeq(head, 1, dash - 1), ".")
        pre    == SubSeq(head, dash + 1, Len(head))
        ok     == /\ (plus <= Len(version) => IsSemVerBuildMetadata(build))
                  /\ Len(core) = 3
                  /\ \A i \in 1..3 : IsSemVerNumber(core[i])
                  /\ (dash <= Len(head) => IsSemVerPreRelease(pre))
    IN  IF ok
        THEN [ok |-> TRUE, major |-> core[1], minor |-> core[2],
              patch |-> core[3], prerelease |-> pre]
        ELSE [ok |-> FALSE, major |-> <<>>, minor |-> <<>>,
              patch |-> <<>>, prerelease |-> <<>>]

\* ParseSemVer without the sentinel after a bare major.minor.patch
ParseSemVerNoSentinel(version) ==
    LET matches == semVerRegEx(version)
        segments == <<matches.major, matches.minor, matches.patch>>
    IN  IF ~matches.ok THEN Failure
        ELSE fromStringSlice("SemVer", version,
                 segments \o parseBySeparator(matches.prerelease, "toDecimalString"))

ParseSemVer(version) ==
    LET matches == semVerRegEx(version)
        segments == <<matches.major, matches.minor, matches.patch>>
    IN  IF ~matches.ok THEN Failure
        ELSE IF matches.prerelease = <<>>
        THEN fromStringSlice("SemVer", version, Append(segments, maxValue))
        ELSE fromStringSlice("SemVer", version,
                 segments \o parseBySeparator(matches.prerelease, "toDecimalString"))

IsHexDigit(c) == IsDigit(c) \/ c \in {"a", "b", "c", "d", "e", "f"}

\* mutant: the commit suffix stays in the string
stripGolangCommitSuffixKeepHash(s) == s

\* golangCommitSuffixRegEx.ReplaceAllString(s, "${1}") with the pattern
\* ([-\.]\d{14})-[a-f0-9]{12}$
stripGolangCommitSuffix(s) ==
    LET n == Len(s)
    IN  IF /\ n >= 28
           /\ s[n - 27] \in {"-", "."}
           /\ \A i \in (n - 26)..(n - 13) : IsDigit(s[i])
           /\ s[n - 12] = "-"
           /\ \A i \in (n - 11)..n : IsHexDigit(s[i])
        THEN SubSeq(s, 1, n - 13)
        ELSE s

\* [err, s]
normalizeGo(version) ==
    LET trimmed == TrimPrefix(version, <<"v">>)
    IN  IF trimmed = version THEN [err |-> TRUE, s |-> <<>>]
        ELSE [err |-> FALSE, s |-> stripGolangCommitSuffix(trimmed)]

ParseGo(version0) ==
    LET n == normalizeGo(version0)
    IN  IF n.err THEN Failure
        ELSE LET r == ParseGeneric(n.s)
             IN  IF r.err THEN Failure
                 ELSE Success([r.v EXCEPT !.ParsedAs = "Go"])

\* ------------------------------------------------------------------- Perl
minimumPerlVersionSegmentCount == 3

\* \.[0-9]+ at the front of s: the lengths of s this can take up
FractionEnds(s) ==
    {k \in 2..Len(s) : s[1] = "." /\ \A i \in 2..k : IsDigit(s[i])}

\* (_[0-9]+)? matching all of s
IsAlphaPartOrEmpty(s) == s = <<>> \/ (s[1] = "_" /\ IsDigits(Tail(s)))

\* (\.[0-9]+){n,} (_[0-9]+)? matching all of s
RECURSIVE IsFractionsAlpha(_, _)
IsFractionsAlpha(s, n) ==
    \/ (n <= 0 /\ IsAlphaPartOrEmpty(s))
    \/ \E k \in FractionEnds(s) : IsFractionsAlpha(SubSeq(s, k + 1, Len(s)), n - 1)

\* the length of the run of digits at the front of s
RECURSIVE LeadingDigits(_)
LeadingDigits(s) ==
    IF s # <<>> /\ IsDigit(s[1]) THEN 1 + LeadingDigits(Tail(s)) ELSE 0

\* decimalRegex: ^(int\.?|int frac alpha|frac alpha)$
decimalRegex(s) ==
    LET n == LeadingDigits(s)
        rest == SubSeq(s, n + 1, Len(s))
    IN  \/ (n > 0 /\ (rest = <<>> \/ rest = <<".">>))
        \/ (n > 0 /\ \E k \in FractionEnds(rest) :
                         IsAlphaPartOrEmpty(SubSeq(rest, k + 1, Len(rest))))
        \/ (n = 0 /\ \E k \in FractionEnds(rest) :
                         IsAlphaPartOrEmpty(SubSeq(rest, k + 1, Len(rest))))

\* dottedDecimalRegex: ^(v int\.?|v int (frac)+ alpha|(int)?(frac){2,} alpha)$
dottedDecimalRegex(s) ==
    LET hasV == s # <<>> /\ s[1] = "v"
        body == IF hasV THEN Tail(s) ELSE s
        n    == LeadingDigits(body)
        rest == SubSeq(body, n + 1, Len(body))
    IN  \/ (hasV /\ n > 0 /\ (rest = <<>> \/ rest = <<".">>))
        \/ (hasV /\ n > 0 /\ rest # <<>> /\ IsFractionsAlpha(rest, 1))
        \/ (~hasV /\ rest # <<>> /\ IsFractionsAlpha(rest, 2))

expandToMinimumSegmentCount(segments) ==
    IF Len(segments) < minimumPerlVersionSegmentCount
    THEN segments \o [i \in 1..(minimumPerlVersionSegmentCount - Len(segments)) |-> <<"0">>]
    ELSE segments

decimalIntegerPartToSegment(part) == IF part = <<>> THEN <<"0">> ELSE part

\* min(lhs, rhs)
Min3(lhs, rhs) == IF lhs <= rhs THEN lhs ELSE rhs

removeLeadingZeros(s) ==
    IF TrimLeft(s, {"0"}) # <<>> THEN TrimLeft(s, {"0"}) ELSE <<"0">>

\* the same without the padding to a multiple of three digits
decimalFractionAndAlphaPartToSegmentsUnpadded(part0) ==
    [g \in 1..((Len(part0) + 2) \div 3) |->
        removeLeadingZeros(SubSeq(part0, 3 * g - 2, Min3(3 * g, Len(part0))))]

decimalFractionAndAlphaPartToSegments(part0) ==
    LET padN == Len(part0) % 3
        part == IF padN # 0 THEN part0 \o [i \in 1..(3 - padN) |-> "0"] ELSE part0
    IN  [g \in 1..(Len(part) \div 3) |->
            removeLeadingZeros(SubSeq(part, 3 * g - 2, 3 * g))]

parsePerlDecimalVersion(version0) ==
    LET version == RemoveAll(version0, "_")
        parts == Split(version, ".")
        first == <<decimalIntegerPartToSegment(parts[1])>>
        segments == IF Len(parts) = 2
                    THEN first \o decimalFractionAndAlphaPartToSegments(parts[2])
                    ELSE first
    IN  fromStringSlice("PerlDecimal", version, expandToMinimumSegmentCount(segments))

parsePerlVStringVersion(version0) ==
    LET version == RemoveAll(TrimPrefix(version0, <<"v">>), "_")
        fields == Split(version, ".")
        segments == [i \in 1..Len(fields) |->
                        IF fields[i] = <<>> THEN <<"0">> ELSE fields[i]]
    IN  fromStringSlice("PerlVString", version, expandToMinimumSegmentCount(segments))

ParsePerl(version) ==
    IF decimalRegex(version) THEN parsePerlDecimalVersion(version)
    ELSE IF dottedDecimalRegex(version) THEN parsePerlVStringVersion(version)
    ELSE Failure

\* ----------------------------------------------------------------- Python
pep440MaxReleaseSegments == 15
pep440DevRelease == <<"-", "4">>
pep440AlphaRelease == <<"-", "3">>
pep440BetaRelease == <<"-", "2">>
pep440RCRelease == <<"-", "1">>
pep440Implicit == <<"0">>
pep440PostRelease == <<"1">>

HasPrefix(s, prefix) ==
    Len(s) >= Len(prefix) /\ SubSeq(s, 1, Len(prefix)) = prefix

Drop(s, n) == SubSeq(s, n + 1, Len(s))


\* [-_\.]
pep440Separators == {"-", "_", "."}

\* the ways [-_\.]?(label)[-_\.]?([0-9]+)? matches at the front of s, label
\* being one of labels, in the order the regexp engine prefers them:
\* [label, n, rest], n empty when the number group did not take part
LabelAlternatives(s, labels) ==
    LET s1 == IF s # <<>> /\ s[1] \in pep440Separators THEN Tail(s) ELSE s
        after(label, r) ==
            [label |-> label,
             n |-> SubSeq(r, 1, LeadingDigits(r)),
             rest |-> Drop(r, LeadingDigits(r))]
        perLabel(label) ==
            IF ~HasPrefix(s1, label) THEN <<>>
            ELSE LET r == Drop(s1, Len(label))
                 IN  (IF r # <<>> /\ r[1] \in pep440Separators
                      THEN <<after(label, Tail(r))>> ELSE <<>>)
                     \o <<after(label, r)>>
    IN  Flatten([i \in 1..Len(labels) |-> perLabel(labels[i])])

\* a partial match: the groups that took part and the text still to match
pep440Start(epoch, release, rest) ==
    [epoch |-> epoch, release |-> release,
     pre |-> FALSE, pre_l |-> <<>>, pre_n |-> <<>>,
     post |-> FALSE, post_n1 |-> <<>>, post_n2 |-> <<>>,
     dev |-> FALSE, dev_n |-> <<>>,
     local |-> <<>>, rest |-> rest]

\* (?P<pre>...)? : the group taking part, in each way, then not taking part
pep440PreAlternatives(m) ==
    LET alts == LabelAlternatives(m.rest,
                    << <<"a">>, <<"b">>, <<"c">>, <<"r", "c">>,
                       <<"a", "l", "p", "h", "a">>, <<"b", "e", "t", "a">>,
                       <<"p", "r", "e">>, <<"p", "r", "e", "v", "i", "e", "w">> >>)
    IN  [i \in 1..Len(alts) |->
            [m EXCEPT !.pre = TRUE, !.pre_l = alts[i].label,
                      !.pre_n = alts[i].n, !.rest = alts[i].rest]]
        \o <<m>>

\* (?P<post>(?:-(?P<post_n1>[0-9]+))|(?:[-_\.]?(?P<post_l>post|rev|r)...))?
pep440PostAlternatives(m) ==
    LET r == m.rest
        n1 == IF r # <<>> /\ r[1] = "-" /\ LeadingDigits(Tail(r)) > 0
              THEN <<[m EXCEPT !.post = TRUE,
                               !.post_n1 = SubSeq(Tail(r), 1, LeadingDigits(Tail(r))),
                               !.rest = Drop(Tail(r), LeadingDigits(Tail(r)))]>>
              ELSE <<>>
        alts == LabelAlternatives(r, << <<"p", "o", "s", "t">>, <<"r", "e", "v">>, <<"r">> >>)
    IN  n1
        \o [i \in 1..Len(alts) |->
               [m EXCEPT !.post = TRUE, !.post_n2 = alts[i].n, !.rest = alts[i].rest]]
        \o <<m>>

\* (?P<dev>[-_\.]?(?P<dev_l>dev)[-_\.]?(?P<dev_n>[0-9]+)?)?
pep440DevAlternatives(m) ==
    LET alts == LabelAlternatives(m.rest, << <<"d", "e", "v">> >>)
    IN  [i \in 1..Len(alts) |->
            [m EXCEPT !.dev = TRUE, !.dev_n = alts[i].n, !.rest = alts[i].rest]]
        \o <<m>>

\* [a-z0-9]+(?:[-_\.][a-z0-9]+)* matching all of s, letters in either case
IsPEP440Local(s) ==
    /\ s # <<>>
    /\ \A i \in 1..Len(s) :
          \/ IsDigit(s[i]) \/ IsLower(s[i]) \/ IsUpper(s[i])
          \/ (s[i] \in pep440Separators /\ 1 < i /\ i < Len(s)
              /\ s[i - 1] \notin pep440Separators)

\* (?:\+(?P<local>...))?\s*$ at the end of a partial match
pep440End(m) ==
    LET r == TrimRight(m.rest, {" "})
    IN  IF r = <<>> THEN <<m>>
        ELSE IF r[1] = "+" /\ IsPEP440Local(Tail(r))
        THEN <<[m EXCEPT !.local = Tail(r), !.rest = <<>>]>>
        ELSE <<>>

\* the length of the longest [0-9]+(?:\.[0-9]+)* at the front of s
ReleaseLength(s) ==
    LET stops == SelectSeq([i \in 1..Len(s) |-> i], LAMBDA i :
                     \/ ~(IsDigit(s[i]) \/ s[i] = ".")
                     \/ (s[i] = "." /\ (i = 1 \/ s[i - 1] = ".")))
        m == IF stops = <<>> THEN Len(s) ELSE stops[1] - 1
    IN  IF m > 0 /\ s[m] = "." THEN m - 1 ELSE m

\* findNamedMatches(version, pep440NormalizationRegex): the first complete
\* match in the engine's order, or no match. Letters are matched in either
\* case; the groups are given in lower case.
pep440Matches(version) ==
    LET s0 == TrimLeft(ToLower(version), {" "})
        s1 == IF s0 # <<>> /\ s0[1] = "v" THEN Tail(s0) ELSE s0
        e  == LeadingDigits(s1)
        hasEpoch == e > 0 /\ Len(s1) > e /\ s1[e + 1] = "!"
        s2 == IF hasEpoch THEN Drop(s1, e + 1) ELSE s1
        n  == ReleaseLength(s2)
        start == pep440Start(IF hasEpoch THEN SubSeq(s1, 1, e) ELSE <<>>,
                             SubSeq(s2, 1, n), Drop(s2, n))
        first(ends) == IF ends = <<>> THEN [ok |-> FALSE, m |-> start]
                       ELSE [ok |-> TRUE, m |-> ends[1]]
        fromDevs(devs) ==
            (CHOOSE result \in {first(value) : value \in {Flatten([i \in 1..Len(devs) |-> pep440End(devs[i])])}} : TRUE)
        fromPosts(posts) ==
            (CHOOSE result \in {fromDevs(value) : value \in {Flatten([i \in 1..Len(posts) |-> pep440DevAlternatives(posts[i])])}} : TRUE)
        fromPres(pres) ==
            (CHOOSE result \in {fromPosts(value) : value \in {Flatten([i \in 1..Len(pres) |-> pep440PostAlternatives(pres[i])])}} : TRUE)
    IN  IF n = 0 THEN [ok |-> FALSE, m |-> start]
        ELSE (CHOOSE result \in {fromPres(value) : value \in {pep440PreAlternatives(start)}} : TRUE)

pep440EpochSegment(m) == IF m.epoch # <<>> THEN m.epoch ELSE pep440Implicit

\* <<label, number>>
pep440PreReleaseSegments(m) ==
    IF ~m.pre THEN <<pep440Implicit, pep440Implicit>>
    ELSE <<IF m.pre_l \in {<<"a">>, <<"a", "l", "p", "h", "a">>} THEN pep440AlphaRelease
           ELSE IF m.pre_l \in {<<"b">>, <<"b", "e", "t", "a">>} THEN pep440BetaRelease
           ELSE pep440RCRelease,
           IF m.pre_n # <<>> THEN m.pre_n ELSE pep440Implicit>>

pep440PostReleaseSegments(m) ==
    IF ~m.post THEN <<pep440Implicit, pep440Implicit>>
    ELSE IF m.post_n1 # <<>> THEN <<pep440PostRelease, m.post_n1>>
    ELSE IF m.post_n2 # <<>> THEN <<pep440PostRelease, m.post_n2>>
    ELSE <<pep440PostRelease, pep440Implicit>>

pep440DevReleaseSegments(m) ==
    IF ~m.dev THEN <<pep440Implicit, pep440Implicit>>
    ELSE IF m.dev_n # <<>> THEN <<pep440DevRelease, m.dev_n>>
    ELSE <<pep440DevRelease, pep440Implicit>>

\* strconv.Atoi(s) succeeds
AtoiOk(s) == ParseInt(s).ok

pep440LocalSegments(m) ==
    IF m.local = <<>> THEN <<>>
    ELSE LET fields == Split([i \in 1..Len(m.local) |->
                                 IF m.local[i] \in {"-", "_"} THEN "." ELSE m.local[i]],
                             ".")
         IN  Flatten([i \in 1..Len(fields) |->
                 IF AtoiOk(ToLower(fields[i]))
                 THEN <<<<"1", "2", "8">>, ToLower(fields[i])>>
                 ELSE <<toDecimalString(ToLower(fields[i]))>>])

\* mutant: a development release keeps the implicit pre-release label
pep440SegmentsNoDevLabel(version, m) ==
    LET split == Split(m.release, ".")
        releaseSegments ==
            split \o [i \in 1..(pep440MaxReleaseSegments - Len(split)) |-> pep440Implicit]
        pre == pep440PreReleaseSegments(m)
        post == pep440PostReleaseSegments(m)
        dev == pep440DevReleaseSegments(m)
        fromSegments(segments) == fromStringSlice("PythonPEP440", version, segments)
    IN  IF Len(split) > pep440MaxReleaseSegments THEN Failure
        ELSE (CHOOSE result \in {fromSegments(value) : value \in {<<pep440EpochSegment(m)>> \o releaseSegments
                  \o <<pre[1], pre[2], post[1], post[2], dev[1], dev[2]>>
                  \o pep440LocalSegments(m)}} : TRUE)

pep440Segments(version, m) ==
    LET split == Split(m.release, ".")
        releaseSegments ==
            split \o [i \in 1..(pep440MaxReleaseSegments - Len(split)) |-> pep440Implicit]
        pre == pep440PreReleaseSegments(m)
        post == pep440PostReleaseSegments(m)
        dev == pep440DevReleaseSegments(m)
        preLabel == IF pre[1] = pep440Implicit /\ post[1] = pep440Implicit
                       /\ dev[1] = pep440DevRelease
                    THEN pep440DevRelease ELSE pre[1]
        fromSegments(segments) == fromStringSlice("PythonPEP440", version, segments)
    IN  IF Len(split) > pep440MaxReleaseSegments THEN Failure
        ELSE (CHOOSE result \in {fromSegments(value) : value \in {<<pep440EpochSegment(m)>> \o releaseSegments
                  \o <<preLabel, pre[2], post[1], post[2], dev[1], dev[2]>>
                  \o pep440LocalSegments(m)}} : TRUE)

parsePEP440(version) ==
    LET fromMatches(found) ==
            IF ~found.ok THEN Failure ELSE pep440Segments(version, found.m)
    IN  (CHOOSE result \in {fromMatches(value) : value \in {pep440Matches(version)}} : TRUE)

\* the length of the run of lower-case ASCII letters at the front of s
RECURSIVE LeadingLetters(_)
LeadingLetters(s) ==
    IF s # <<>> /\ IsLower(s[1]) THEN 1 + LeadingLetters(Tail(s)) ELSE 0

\* the pieces of version, each ending with a match of
\* legacyPythonSegmentsRegex (\d+|[a-z]+|\.|-) and holding the text before
\* it; the last piece is the text after the last match
legacyPythonPieces(s) ==
    LET kind(i) == IF IsDigit(s[i]) THEN "digits"
                   ELSE IF IsLower(s[i]) THEN "letters"
                   ELSE IF s[i] \in {".", "-"} THEN "mark"
                   ELSE "other"
        ends == SelectSeq([i \in 1..Len(s) |-> i], LAMBDA i :
                    /\ kind(i) # "other"
                    /\ (kind(i) = "mark" \/ i = Len(s) \/ kind(i + 1) # kind(i)))
    IN  CutAfter(s, ends)

legacyPythonReplacements(segment) ==
    IF segment \in {<<"p", "r", "e">>, <<"p", "r", "e", "v", "i", "e", "w">>,
                    <<"r", "c">>}
    THEN <<"c">>
    ELSE IF segment = <<"-">> THEN <<"f", "i", "n", "a", "l", "-">>
    ELSE IF segment = <<"d", "e", "v">> THEN <<"@">>
    ELSE segment

\* fmt.Sprintf("%08d", n) for the int64 n >= 0
Pad8(n) ==
    IF Len(n.mag) >= 8 THEN DigitsToStr(n.mag)
    ELSE [i \in 1..(8 - Len(n.mag)) |-> "0"] \o DigitsToStr(n.mag)

legacyFinal == <<"*", "f", "i", "n", "a", "l">>

splitLegacyPythonSegments(version) ==
    LET named(pieces) ==
            [i \in 1..Len(pieces) |-> legacyPythonReplacements(pieces[i])]
        kept(pieces) ==
            SelectSeq(named(pieces), LAMBDA seg : seg # <<>> /\ seg # <<".">>)
        padded(segs) ==
            [i \in 1..Len(segs) |->
                IF AtoiOk(segs[i])
                THEN (IF Len(segs[i]) <= 8 THEN Pad8(ParseInt(segs[i]).n) ELSE segs[i])
                ELSE <<"*">> \o segs[i]]
            \o <<legacyFinal>>
    IN  (CHOOSE result \in {padded(value) : value \in {(CHOOSE result \in {kept(value) : value \in {legacyPythonPieces(version)}} : TRUE)}} : TRUE)

\* a < b on Go strings: byte order, which is code point order
RECURSIVE StringLess(_, _)
StringLess(a, b) ==
    IF b = <<>> THEN FALSE
    ELSE IF a = <<>> THEN TRUE
    ELSE IF a[1] # b[1] THEN Codepoint(a[1]) < Codepoint(b[1])
    ELSE StringLess(Tail(a), Tail(b))

\* segments without the elements equal to drop at its end
RECURSIVE DropTrailing(_, _)
DropTrailing(segments, drop) ==
    IF segments # <<>> /\ segments[Len(segments)] = drop
    THEN DropTrailing(SubSeq(segments, 1, Len(segments) - 1), drop)
    ELSE segments

\* one round of the loop of parseLegacyPython
legacyPythonStep(segments, segment) ==
    LET a == IF segment[1] = "*" /\ StringLess(segment, legacyFinal)
             THEN DropTrailing(segments, <<"*", "f", "i", "n", "a", "l", "-">>)
             ELSE segments
        b == IF segment[1] = "*"
             THEN DropTrailing(a, <<"0", "0", "0", "0", "0", "0", "0", "0">>)
             ELSE segments
    IN  Append(b, segment)

\* the loop of parseLegacyPython over the split segments: the rounds for the
\* first half of todo, then the rounds for the rest
RECURSIVE legacyPythonLoop(_, _)
legacyPythonLoop(segments, todo) ==
    IF todo = <<>> THEN segments
    ELSE IF Len(todo) = 1 THEN legacyPythonStep(segments, todo[1])
    ELSE LET half == Len(todo) \div 2
             rest(done) == legacyPythonLoop(done, SubSeq(todo, half + 1, Len(todo)))
         IN  (CHOOSE result \in {rest(value) : value \in {legacyPythonLoop(segments, SubSeq(todo, 1, half))}} : TRUE)

\* mutant: no epoch segment in front of the legacy segments
parseLegacyPythonNoEpoch(version) ==
    LET fromSegments(segments) ==
            fromStringSlice("PythonLegacy", version,
                [i \in 1..Len(segments) |-> toDecimalString(segments[i])])
        loop(todo) == legacyPythonLoop(<<>>, todo)
    IN  (CHOOSE result \in {fromSegments(value) : value \in {(CHOOSE result \in {loop(value) : value \in {splitLegacyPythonSegments(ToLower(version))}} : TRUE)}} : TRUE)

parseLegacyPython(version) ==
    LET fromSegments(segments) ==
            fromStringSlice("PythonLegacy", version,
                <<<<"-", "1">>>>
                \o [i \in 1..Len(segments) |-> toDecimalString(segments[i])])
        loop(todo) == legacyPythonLoop(<<>>, todo)
    IN  (CHOOSE result \in {fromSegments(value) : value \in {(CHOOSE result \in {loop(value) : value \in {splitLegacyPythonSegments(ToLower(version))}} : TRUE)}} : TRUE)

\* mutant: the result of the PEP 440 parse is returned as it is
ParsePythonNoFallback(version) == parsePEP440(version)

ParsePython(version) ==
    LET orLegacy(result) ==
            IF ~result.err THEN result ELSE parseLegacyPython(version)
    IN  (CHOOSE result \in {orLegacy(value) : value \in {parsePEP440(version)}} : TRUE)

\* -------------------------------------------------------------------- PHP
\* unicode.IsSpace, which strings.TrimSpace uses, and \s of the patterns
\* ("LF" is the line feed)
UnicodeSpace == {" ", "LF", "NBSP"}
PatternSpace == {" ", "LF"}

TrimSpace(s) == TrimRight(TrimLeft(s, UnicodeSpace), UnicodeSpace)

\* [^,\s]+ matching all of s
IsAliasWord(s) ==
    s # <<>> /\ \A i \in 1..Len(s) : s[i] \notin ({","} \cup PatternSpace)

\* phpAliasRegex.FindStringSubmatch(version), ^([^,\s]+) +as +([^,\s]+)$:
\* [ok, name]
phpAliasRegex(version) ==
    LET sp     == FirstIndex(version, " ")
        name   == SubSeq(version, 1, sp - 1)
        rest   == TrimLeft(SubSeq(version, sp, Len(version)), {" "})
        target == TrimLeft(Drop(rest, 2), {" "})
    IN  [ok |-> /\ sp <= Len(version)
                /\ IsAliasWord(name)
                /\ HasPrefix(rest, <<"a", "s">>)
                /\ Len(rest) > 2 /\ rest[3] = " "
                /\ IsAliasWord(target),
         name |-> name]

phpAtStabilities ==
    { <<"@", "s", "t", "a", "b", "l", "e">>, <<"@", "r", "c">>,
      <<"@", "b", "e", "t", "a">>, <<"@", "a", "l", "p", "h", "a">>,
      <<"@", "d", "e", "v">> }

\* phpAtStabilitiesRegex.FindStringIndex(version)[0] as a length: the
\* characters before the match, Len(version) when there is no match
phpAtStabilitiesRegex(version) ==
    LET n == Len(version)
        found == {st \in phpAtStabilities :
                     /\ n >= Len(st)
                     /\ ToLower(SubSeq(version, n - Len(st) + 1, n)) = st}
    IN  IF found = {} THEN n ELSE n - Len(CHOOSE st \in found : TRUE)

\* phpBuildRegex.FindStringSubmatch(version), ^([^,\s+]+)\+[^\s]+$:
\* [ok, name]
phpBuildRegex(version) ==
    LET plus == FirstIndex(version, "+")
        name == SubSeq(version, 1, plus - 1)
        rest == SubSeq(version, plus + 1, Len(version))
    IN  [ok |-> /\ plus <= Len(version)
                /\ IsAliasWord(name)
                /\ rest # <<>>
                /\ \A i \in 1..Len(rest) : rest[i] \notin PatternSpace,
         name |-> name]

\* the alternatives stable|beta|b|RC|alpha|a|patch|pl|p in their order
phpModifiers ==
    << <<"s", "t", "a", "b", "l", "e">>, <<"b", "e", "t", "a">>, <<"b">>,
       <<"r", "c">>, <<"a", "l", "p", "h", "a">>, <<"a">>,
       <<"p", "a", "t", "c", "h">>, <<"p", "l">>, <<"p">> >>

\* the length of the longest prefix of s that (?:[.-]?\d+)* matches
RECURSIVE NumberRunLen(_)
NumberRunLen(s) ==
    LET j == IF s # <<>> /\ s[1] \in {".", "-"} THEN 1 ELSE 0
        n == LeadingDigits(Drop(s, j))
    IN  IF n = 0 THEN 0
        ELSE j + n + NumberRunLen(Drop(s, j + n))

\* ([.-]?dev)?$ matching all of s, case ignored
IsDevTail(s) ==
    ToLower(s) \in {<<>>, <<"d", "e", "v">>, <<".", "d", "e", "v">>,
                    <<"-", "d", "e", "v">>}

\* the common end of the two patterns,
\* [._-]?(?:(modifier)((?:[.-]?\d+)*)?)?([.-]?dev)?$, matching all of s:
\* [ok, modifier, numbers, dev]
phpModifierTail(s) ==
    LET r == IF s # <<>> /\ s[1] \in {".", "_", "-"} THEN Tail(s) ELSE s
        after(i) == Drop(r, Len(phpModifiers[i]))
        fits(i) == /\ HasPrefix(ToLower(r), phpModifiers[i])
                   /\ IsDevTail(Drop(after(i), NumberRunLen(after(i))))
        alts == {i \in DOMAIN phpModifiers : fits(i)}
    IN  IF alts # {}
        THEN LET i == CHOOSE k \in alts : \A l \in alts : k <= l
             IN  [ok |-> TRUE,
                  modifier |-> SubSeq(r, 1, Len(phpModifiers[i])),
                  numbers |-> SubSeq(after(i), 1, NumberRunLen(after(i))),
                  dev |-> Drop(after(i), NumberRunLen(after(i)))]
        ELSE [ok |-> IsDevTail(r), modifier |-> <<>>, numbers |-> <<>>,
              dev |-> r]

\* (\.\d+)? at the start of s: the text matched, empty when there is none
DotNumber(s) ==
    IF Len(s) >= 2 /\ s[1] = "." /\ IsDigit(s[2])
    THEN SubSeq(s, 1, 1 + LeadingDigits(Tail(s)))
    ELSE <<>>

\* phpClassicalRegex.FindStringSubmatch(version):
\* [ok, m1, m2, m3, m4, modifier, numbers, dev]
phpClassicalRegex(version) ==
    LET body == IF version # <<>> /\ version[1] \in {"v", "V"}
                THEN Tail(version) ELSE version
        m1 == SubSeq(body, 1, LeadingDigits(body))
        r1 == Drop(body, Len(m1))
        m2 == DotNumber(r1)
        r2 == Drop(r1, Len(m2))
        m3 == IF m2 = <<>> THEN <<>> ELSE DotNumber(r2)
        r3 == Drop(r2, Len(m3))
        m4 == IF m3 = <<>> THEN <<>> ELSE DotNumber(r3)
        t  == phpModifierTail(Drop(r3, Len(m4)))
    IN  [ok |-> Len(m1) >= 1 /\ Len(m1) <= 5 /\ t.ok,
         m1 |-> m1, m2 |-> m2, m3 |-> m3, m4 |-> m4,
         modifier |-> t.modifier, numbers |-> t.numbers, dev |-> t.dev]

\* (?:[.:-]?\d{2}){1,6}(?:[.:-]?\d{1,3})?$ matching s from position i on,
\* k groups of two digits being matched already
RECURSIVE phpDatetimeGroups(_, _, _)
phpDatetimeGroups(s, i, k) ==
    LET j == IF i <= Len(s) /\ s[i] \in {".", ":", "-"} THEN i + 1 ELSE i
    IN  \/ k >= 1 /\ i = Len(s) + 1
        \/ /\ k >= 1
           /\ j <= Len(s) /\ Len(s) - j + 1 <= 3
           /\ \A l \in j..Len(s) : IsDigit(s[l])
        \/ /\ k < 6
           /\ j + 1 <= Len(s) /\ IsDigit(s[j]) /\ IsDigit(s[j + 1])
           /\ phpDatetimeGroups(s, j + 2, k + 1)

\* the longest prefix of s made of digits and the separators . : - that
\* ends with a digit
DatetimePrefix(s) ==
    LET ends == {n \in 1..Len(s) :
                    /\ IsDigit(s[n])
                    /\ \A l \in 1..n : IsDigit(s[l]) \/ s[l] \in {".", ":", "-"}}
    IN  IF ends = {} THEN <<>>
        ELSE SubSeq(s, 1, CHOOSE n \in ends : \A l \in ends : l <= n)

\* phpDatetimeRegex.FindStringSubmatch(version):
\* [ok, m1, modifier, numbers, dev]
phpDatetimeRegex(version) ==
    LET body == IF version # <<>> /\ version[1] \in {"v", "V"}
                THEN Tail(version) ELSE version
        m1 == DatetimePrefix(body)
        t  == phpModifierTail(Drop(body, Len(m1)))
    IN  [ok |-> /\ Len(m1) >= 4
                /\ \A l \in 1..4 : IsDigit(m1[l])
                /\ phpDatetimeGroups(m1, 5, 0)
                /\ t.ok,
         m1 |-> m1, modifier |-> t.modifier, numbers |-> t.numbers,
         dev |-> t.dev]

\* phpNondigitRegex.ReplaceAllLiteralString(s, ".")
phpNondigitRegex(s) == [i \in 1..Len(s) |-> IF IsDigit(s[i]) THEN s[i] ELSE "."]

expandPHPStability(stability) ==
    LET lower == ToLower(stability)
    IN  CASE lower = <<"a">> -> <<"a", "l", "p", "h", "a">>
          [] lower = <<"b">> -> <<"b", "e", "t", "a">>
          [] lower = <<"p">> -> <<"p", "a", "t", "c", "h">>
          [] lower = <<"p", "l">> -> <<"p", "a", "t", "c", "h">>
          [] lower = <<"r", "c">> -> <<"R", "C">>
          [] OTHER -> stability

\* the version modifiers added to the numeric part: [err, s]
addPHPModifiers(version, modifier, numbers, dev) ==
    IF modifier = <<"s", "t", "a", "b", "l", "e">>
    THEN [err |-> FALSE, s |-> version]
    ELSE [err |-> FALSE,
          s |-> version
                \o (IF modifier = <<>> THEN <<>>
                    ELSE <<"-">> \o expandPHPStability(modifier)
                         \o TrimLeft(numbers, {".", "-"}))
                \o (IF dev = <<>> THEN <<>> ELSE <<"-", "d", "e", "v">>)]

\* [err, s]
normalizePHP(version0) ==
    LET lower    == ToLower(TrimSpace(version0))
        unalias  == IF phpAliasRegex(lower).ok THEN phpAliasRegex(lower).name
                    ELSE lower
        unstable == SubSeq(unalias, 1, phpAtStabilitiesRegex(unalias))
        version  == IF phpBuildRegex(unstable).ok
                    THEN phpBuildRegex(unstable).name ELSE unstable
        matches  == phpClassicalRegex(version)
        orZero(m) == IF m = <<>> THEN <<".", "0">> ELSE m
        dt       == phpDatetimeRegex(version)
    IN  IF matches.ok
        THEN addPHPModifiers(matches.m1 \o orZero(matches.m2)
                                 \o orZero(matches.m3) \o orZero(matches.m4),
                             matches.modifier, matches.numbers, matches.dev)
        ELSE IF dt.ok
        THEN addPHPModifiers(phpNondigitRegex(dt.m1),
                             dt.modifier, dt.numbers, dt.dev)
        ELSE [err |-> TRUE, s |-> <<>>]

IsLetter(c) == IsLower(c) \/ IsUpper(c)

\* phpDigitWordRegex and phpWordDigitRegex, ReplaceAllString(s, "$1.$2"):
\* a "." goes between a digit and a letter next to each other
RECURSIVE phpDotBoundaries(_)
phpDotBoundaries(s) ==
    IF Len(s) < 2 THEN s
    ELSE IF \/ IsDigit(s[1]) /\ IsLetter(s[2])
            \/ IsLetter(s[1]) /\ IsDigit(s[2])
    THEN <<s[1], ".">> \o phpDotBoundaries(Tail(s))
    ELSE <<s[1]>> \o phpDotBoundaries(Tail(s))

phpSpecialSegments ==
    { <<"d", "e", "v">>, <<"a", "l", "p", "h", "a">>, <<"b", "e", "t", "a">>,
      <<"R", "C">>, <<"p", "a", "t", "c", "h">> }

\* the value a segment is replaced with
phpSegmentValue(segment) ==
    CASE segment = <<"d", "e", "v">> -> <<"-", "4">>
      [] segment = <<"a", "l", "p", "h", "a">> -> <<"-", "3">>
      [] segment = <<"b", "e", "t", "a">> -> <<"-", "2">>
      [] segment = <<"R", "C">> -> <<"-", "1">>
      [] segment = <<"p", "a", "t", "c", "h">> -> <<"0", ".", "5">>
      [] OTHER -> segment

\* mutant: nothing is appended after a last segment that is special
convertPHPSegmentsNoBareMarker(segments) ==
    LET results == [i \in 1..Len(segments) |-> phpSegmentValue(segments[i])]
        hasSpecial(i) == \E j \in 1..i : segments[j] \in phpSpecialSegments
        leadingSegmentCount ==
            Cardinality({i \in 1..Len(segments) : ~hasSpecial(i)})
        value == IF /\ Len(results) > leadingSegmentCount
                    /\ results[leadingSegmentCount + 1] = <<"0", ".", "5">>
                 THEN <<"1", "0", "0", "0", "0", "0", "0", "0", "0", "0">>
                 ELSE <<"-", "0", ".", "5">>
    IN  IF leadingSegmentCount < 4
        THEN SubSeq(results, 1, leadingSegmentCount) \o <<value>>
             \o Drop(results, leadingSegmentCount)
        ELSE results

convertPHPSegments(segments) ==
    LET results == [i \in 1..Len(segments) |-> phpSegmentValue(segments[i])]
        hasSpecial(i) == \E j \in 1..i : segments[j] \in phpSpecialSegments
        leadingSegmentCount ==
            Cardinality({i \in 1..Len(segments) : ~hasSpecial(i)})
        lastIsSpecial ==
            segments # <<>> /\ segments[Len(segments)] \in phpSpecialSegments
        value == IF /\ Len(results) > leadingSegmentCount
                    /\ results[leadingSegmentCount + 1] = <<"0", ".", "5">>
                 THEN <<"1", "0", "0", "0", "0", "0", "0", "0", "0", "0">>
                 ELSE <<"-", "0", ".", "5">>
        dated == IF leadingSegmentCount < 4
                 THEN SubSeq(results, 1, leadingSegmentCount) \o <<value>>
                      \o Drop(results, leadingSegmentCount)
                 ELSE results
    IN  IF lastIsSpecial THEN Append(dated, <<"-", "0", ".", "5">>) ELSE dated

ParsePHP(version0) ==
    LET dots(n) ==
            IF n.err THEN Failure
            ELSE fromStringSlice("PHP", version0,
                     convertPHPSegments(
                         Split(phpDotBoundaries(
                                   [i \in 1..Len(n.s) |->
                                       IF n.s[i] \in {"_", "-", "+"} THEN "."
                                       ELSE n.s[i]]), ".")))
    IN  (CHOOSE result \in {dots(value) : value \in {normalizePHP(version0)}} : TRUE)

\* ------------------------------------------------------------------- Ruby
\* [0-9a-zA-Z]+ matching all of s, with "-" among the characters when dash
IsRubyWord(s, dash) ==
    /\ s # <<>>
    /\ \A i \in 1..Len(s) :
          IsDigit(s[i]) \/ IsLetter(s[i]) \/ (dash /\ s[i] = "-")

\* rubyVersionRegex.MatchString(v) for a v without space at its ends
rubyVersionRegex(v) ==
    LET dash  == FirstIndex(v, "-")
        parts == Split(SubSeq(v, 1, dash - 1), ".")
        ids   == Split(SubSeq(v, dash + 1, Len(v)), ".")
    IN  /\ IsDigits(parts[1])
        /\ \A i \in 2..Len(parts) : IsRubyWord(parts[i], FALSE)
        /\ (dash <= Len(v) => \A i \in 1..Len(ids) : IsRubyWord(ids[i], TRUE))

\* strings.ReplaceAll(v, "-", ".pre.")
RECURSIVE ReplaceDashes(_)
ReplaceDashes(v) ==
    IF v = <<>> THEN <<>>
    ELSE IF v[1] = "-" THEN <<".", "p", "r", "e", ".">> \o ReplaceDashes(Tail(v))
    ELSE <<v[1]>> \o ReplaceDashes(Tail(v))

\* rubySegmentRegex.FindAllString(version, -1): the runs of digits and the
\* runs of letters, in their order
rubySegmentRegex(version) ==
    LET class(i) == IF IsDigit(version[i]) THEN "digit"
                    ELSE IF IsLetter(version[i]) THEN "letter" ELSE "other"
        starts == {i \in 1..Len(version) :
                      /\ class(i) # "other"
                      /\ (i = 1 \/ class(i - 1) # class(i))}
        end(i) == CHOOSE j \in i..Len(version) :
                      /\ \A l \in i..j : class(l) = class(i)
                      /\ (j = Len(version) \/ class(j + 1) # class(i))
        start(k) == CHOOSE i \in starts :
                        Cardinality({j \in starts : j < i}) = k - 1
    IN  [k \in 1..Cardinality(starts) |-> SubSeq(version, start(k), end(start(k)))]

\* strconv.Itoa of the number strconv.Atoi(s) returned
Itoa(s) == DigitsToStr(ParseInt(s).n.mag)

dropTrailingZeroes(segments) ==
    LET nonzero == {i \in 1..Len(segments) : segments[i] # <<"0">>}
        lastNonzeroIndex == IF nonzero = {} THEN 0
                            ELSE CHOOSE i \in nonzero : \A j \in nonzero : j <= i
    IN  SubSeq(segments, 1, lastNonzeroIndex)

splitSegments(version) ==
    LET segments == rubySegmentRegex(version)
        failed == {i \in 1..Len(segments) : ~AtoiOk(segments[i])}
        first  == IF failed = {} THEN Len(segments) + 1
                  ELSE CHOOSE i \in failed : \A j \in failed : i <= j
        norm(i) == IF AtoiOk(segments[i]) THEN Itoa(segments[i]) ELSE segments[i]
        before == [i \in 1..(first - 1) |-> norm(i)]
        after  == [i \in 1..(Len(segments) - first + 1) |-> norm(first - 1 + i)]
    IN  dropTrailingZeroes(before) \o dropTrailingZeroes(after)

\* the encoding of a string segment, the same as toDecimalString
asciiToDecimalString(s) == toDecimalString(s)

ParseRuby(version) ==
    LET trimmed == TrimSpace(version)
        v == IF trimmed = <<>> THEN <<"0">> ELSE trimmed
        output(segments) ==
            Flatten([i \in 1..Len(segments) |->
                        IF ~AtoiOk(segments[i])
                        THEN << <<"-", "1">>, asciiToDecimalString(segments[i]) >>
                        ELSE << segments[i] >>])
        orZero(segments) ==
            IF Len(segments) = 0 THEN output(<< <<"0">> >>) ELSE output(segments)
    IN  IF ~rubyVersionRegex(v) THEN Failure
        ELSE fromStringSlice("Ruby", version,
                             (CHOOSE result \in {orZero(value) : value \in {splitSegments(ReplaceDashes(v))}} : TRUE))

\* ------------------------------------------------------------ MarshalJSON
\* encoding/json on an int64: a JSON number
Int64ToJSON(n) ==
    [kind |-> "number",
     text |-> (IF n.neg THEN <<"-">> ELSE <<>>) \o DigitsToStr(n.mag)]

\* decimal.Big.MarshalText in plain notation; encoding/json makes it a string
BigToStr(d) ==
    LET all == IF Len(d.digits) <= d.scale
               THEN Zeros(d.scale - Len(d.digits) + 1) \o d.digits
               ELSE d.digits
        n   == Len(all) - d.scale
    IN  (IF d.neg THEN <<"-">> ELSE <<>>)
        \o DigitsToStr(SubSeq(all, 1, n))
        \o (IF d.scale > 0 THEN <<".">> \o DigitsToStr(SubSeq(all, n + 1, Len(all)))
            ELSE <<>>)

BigToJSON(d) == [kind |-> "string", text |-> BigToStr(d)]

\* the ParsedAs field is tagged json:"-" and never written
MarshalJSON(v) ==
    IF ~v.Decimal.isNil
    THEN [keys |-> <<"version", "sortable_version">>,
          version |-> v.Original,
          sortable_version |->
              [i \in 1..Len(v.Decimal.elems) |-> BigToJSON(v.Decimal.elems[i])]]
    ELSE [keys |-> <<"version", "sortable_version">>,
          version |-> v.Original,
          sortable_version |->
              [i \in 1..Len(v.Ints.elems) |-> Int64ToJSON(v.Ints.elems[i])]]

\* ================================================================ variables
VARIABLES
    x, y, z,        \* the Versions handed to Compare
    cpc,            \* "ready" before the calls, "done" after
    rxy, ryx, ryz, rxz,  \* Compare(x,y), Compare(y,x), Compare(y,z), Compare(x,z)
    vers,           \* heap: the Version structs, by address 1..Len(vers)
    intArrs,        \* heap: backing arrays of []int64 slices
    ptrArrs,        \* heap: backing arrays of []*decimal.Big slices
    bigs,           \* heap: the decimal.Big objects
    tmp,            \* per goroutine: the array made by promoteDecimals
    call,           \* per goroutine: the Compare call in progress
    input,          \* the string handed to a parser
    strs,           \* the string slice handed to fromStringSlice
    pcall,          \* the parse function called, "string"/"slice" before
    out,            \* what the parse function returned: [err, v]
    json,           \* what MarshalJSON returned for out.v
    input2,         \* the second string, when two are parsed
    out2,           \* what the parse function returned for input2
    cmp             \* Compare(out.v, out2.v), NotCompared before

cmpVars == <<x, y, z, cpc, rxy, ryx, ryz, rxz>>
heapVars == <<vers, intArrs, ptrArrs, bigs, tmp, call>>
parseVars == <<input, strs, pcall, out, json, input2, out2, cmp>>
pairVars == <<input2, out2, cmp>>

\* no JSON document yet
NoJSON == [keys |-> <<>>, version |-> <<>>, sortable_version |-> <<>>]
NotCompared == 3
NoPair == input2 = <<>> /\ out2 = Failure /\ cmp = NotCompared
vars == <<cmpVars, heapVars, parseVars>>

NoParse ==
    /\ input = <<>> /\ strs = <<>> /\ pcall = "off" /\ out = Failure
    /\ json = NoJSON
    /\ NoPair

\* ===================================================== Spec: Compare, pure
NoHeap ==
    /\ vers = <<>> /\ intArrs = <<>> /\ ptrArrs = <<>> /\ bigs = <<>>
    /\ tmp = <<>> /\ call = <<>>

CmpInit ==
    /\ x \in CmpVersions
    /\ y \in CmpVersions
    /\ z \in CmpVersions
    /\ cpc = "ready"
    /\ rxy = 0 /\ ryx = 0 /\ ryz = 0 /\ rxz = 0
    /\ NoHeap
    /\ NoParse

DoCompare ==
    /\ cpc = "ready"
    /\ cpc' = "done"
    /\ rxy' = Compare(x, y)
    /\ ryx' = Compare(y, x)
    /\ ryz' = Compare(y, z)
    /\ rxz' = Compare(x, z)
    /\ UNCHANGED <<x, y, z>>
    /\ UNCHANGED heapVars
    /\ UNCHANGED parseVars

Init == CmpInit
Next == DoCompare
Spec == Init /\ [][Next]_vars

\* ======================================================== the Version heap
MaxSegs == 2
MaxVersions == 3
Threads == {1, 2}

\* a slice header: nil, or the address of its backing array; a negative
\* address -t is the array goroutine t made in promoteDecimals
NilHdr == [isNil |-> TRUE, arr |-> 0]
Hdr(a) == [isNil |-> FALSE, arr |-> a]

IntsView(v) ==
    LET h == vers[v].Ints
    IN  IF h.isNil THEN NilSlice ELSE Slice(intArrs[h.arr])

DecimalView(v) ==
    LET h == vers[v].Decimal
    IN  IF h.isNil THEN NilSlice
        ELSE IF h.arr < 0 THEN Slice(tmp[0 - h.arr])
        ELSE Slice([i \in 1..Len(ptrArrs[h.arr]) |-> bigs[ptrArrs[h.arr][i]]])

\* the Version at address v with its slices read through
View(v) == Version(vers[v].Original, IntsView(v), DecimalView(v), vers[v].ParsedAs)

\* the Version at address v as it is when no Compare call is working on it
Pristine(v) ==
    IF ~vers[v].Decimal.isNil /\ vers[v].Decimal.arr < 0
    THEN [View(v) EXCEPT !.Decimal = NilSlice]
    ELSE View(v)

HIntVals == {Int64Zero, MkInt64(FALSE, <<1>>)}
HDecVals == {bigZero, MkBig(FALSE, <<1, 0>>, 1)}
NonEmptySeqs(S, n) == UNION {[1..k -> S] : k \in 1..n}

Idle == [pc |-> "idle", a |-> 0, b |-> 0, target |-> 0,
         mm |-> [min |-> 0, max |-> 0, longest |-> <<>>, flip |-> 1],
         cmp |-> 0, before |-> <<>>, alone |-> 0]

AllIdle == \A t \in Threads : call[t].pc = "idle"

NoCmp ==
    /\ x = Version(<<>>, NilSlice, NilSlice, "Unknown")
    /\ y = x /\ z = x
    /\ cpc = "off"
    /\ rxy = 0 /\ ryx = 0 /\ ryz = 0 /\ rxz = 0

\* one integer Version and one decimal Version, as the parsers build them
HeapInit ==
    /\ NoCmp
    /\ NoParse
    /\ \E is \in NonEmptySeqs(HIntVals, MaxSegs), ds \in NonEmptySeqs(HDecVals, MaxSegs) :
          /\ intArrs = <<is>>
          /\ bigs = ds
          /\ ptrArrs = <<[i \in 1..Len(ds) |-> i]>>
          /\ vers = << [Original |-> <<"i">>, Ints |-> Hdr(1), Decimal |-> NilHdr,
                        ParsedAs |-> "Generic"],
                       [Original |-> <<"d">>, Ints |-> NilHdr, Decimal |-> Hdr(1),
                        ParsedAs |-> "SemVer"] >>
    /\ tmp = [t \in Threads |-> <<>>]
    /\ call = [t \in Threads |-> Idle]

\* ------------------------------------------------------------------- Clone
\* mutant: the clone keeps the receiver's slices
CloneShallow(v) ==
    /\ AllIdle
    /\ v \in 1..Len(vers)
    /\ Len(vers) < MaxVersions
    /\ vers' = Append(vers, [Original |-> vers[v].Original,
                             Ints |-> IF vers[v].Decimal.isNil THEN vers[v].Ints ELSE NilHdr,
                             Decimal |-> vers[v].Decimal,
                             ParsedAs |-> vers[v].ParsedAs])
    /\ UNCHANGED <<intArrs, ptrArrs, bigs, tmp, call>>
    /\ UNCHANGED <<cmpVars, parseVars>>

Clone(v) ==
    /\ AllIdle
    /\ v \in 1..Len(vers)
    /\ Len(vers) < MaxVersions
    /\ IF ~vers[v].Decimal.isNil
       THEN LET d == DecimalView(v).elems
                n == Len(bigs)
            IN  /\ bigs' = bigs \o d
                /\ ptrArrs' = Append(ptrArrs, [i \in 1..Len(d) |-> n + i])
                /\ vers' = Append(vers, [Original |-> vers[v].Original,
                                         Ints |-> NilHdr,
                                         Decimal |-> Hdr(Len(ptrArrs) + 1),
                                         ParsedAs |-> vers[v].ParsedAs])
                /\ UNCHANGED intArrs
       ELSE /\ intArrs' = Append(intArrs, IntsView(v).elems)
            /\ vers' = Append(vers, [Original |-> vers[v].Original,
                                     Ints |-> Hdr(Len(intArrs) + 1),
                                     Decimal |-> NilHdr,
                                     ParsedAs |-> vers[v].ParsedAs])
            /\ UNCHANGED <<ptrArrs, bigs>>
    /\ UNCHANGED <<tmp, call>>
    /\ UNCHANGED <<cmpVars, parseVars>>

\* ------------------------------------------- a caller changing a segment
\* v.Ints[i] = val
SetIntSegment(v, i, val) ==
    /\ AllIdle
    /\ v \in 1..Len(vers)
    /\ ~vers[v].Ints.isNil
    /\ i \in 1..Len(intArrs[vers[v].Ints.arr])
    /\ intArrs[vers[v].Ints.arr][i] # val
    /\ intArrs' = [intArrs EXCEPT ![vers[v].Ints.arr][i] = val]
    /\ UNCHANGED <<vers, ptrArrs, bigs, tmp, call>>
    /\ UNCHANGED <<cmpVars, parseVars>>

\* v.Decimal[i].Copy(val): the decimal.Big behind the pointer is changed
SetDecimalSegment(v, i, val) ==
    /\ AllIdle
    /\ v \in 1..Len(vers)
    /\ ~vers[v].Decimal.isNil
    /\ vers[v].Decimal.arr > 0
    /\ i \in 1..Len(ptrArrs[vers[v].Decimal.arr])
    /\ bigs[ptrArrs[vers[v].Decimal.arr][i]] # val
    /\ bigs' = [bigs EXCEPT ![ptrArrs[vers[v].Decimal.arr][i]] = val]
    /\ UNCHANGED <<vers, intArrs, ptrArrs, tmp, call>>
    /\ UNCHANGED <<cmpVars, parseVars>>

\* ------------------------------------------------- Compare, step by step
\* the call is entered with the two pointers
StartCompare(t, a, b) ==
    /\ call[t].pc = "idle"
    /\ a \in 1..Len(vers) /\ b \in 1..Len(vers)
    /\ call' = [call EXCEPT ![t] =
                  [Idle EXCEPT !.pc = "branch", !.a = a, !.b = b,
                               !.before = <<vers[a], View(a), vers[b], View(b)>>,
                               !.alone = Compare(Pristine(a), Pristine(b))]]
    /\ UNCHANGED <<vers, intArrs, ptrArrs, bigs, tmp>>
    /\ UNCHANGED <<cmpVars, parseVars>>

\* a call entered while no other call is in progress
StartCompareAlone(t, a, b) ==
    /\ AllIdle
    /\ StartCompare(t, a, b)

\* the if / else-if chain on v1.Decimal and v2.Decimal; compareInts writes
\* nothing and reads only Ints, so it is taken in the same step
CompareBranch(t) ==
    LET c == call[t]
        n1 == vers[c.a].Decimal.isNil
        n2 == vers[c.b].Decimal.isNil
    IN  /\ c.pc = "branch"
        /\ call' = [call EXCEPT ![t] =
              IF ~n1 /\ ~n2 THEN [c EXCEPT !.pc = "minmax"]
              ELSE IF ~n1 /\ n2 THEN [c EXCEPT !.pc = "promote", !.target = c.b]
              ELSE IF n1 /\ ~n2 THEN [c EXCEPT !.pc = "promote", !.target = c.a]
              ELSE [c EXCEPT !.pc = "returned",
                             !.cmp = compareInts(View(c.a), View(c.b))]]
        /\ UNCHANGED <<vers, intArrs, ptrArrs, bigs, tmp>>
        /\ UNCHANGED <<cmpVars, parseVars>>

\* v.Decimal = promoteDecimals(v)
ComparePromote(t) ==
    LET c == call[t]
    IN  /\ c.pc = "promote"
        /\ tmp' = [tmp EXCEPT ![t] = promoteDecimals(View(c.target)).elems]
        /\ vers' = [vers EXCEPT ![c.target].Decimal = Hdr(0 - t)]
        /\ call' = [call EXCEPT ![t].pc = "minmax"]
        /\ UNCHANGED <<intArrs, ptrArrs, bigs>>
        /\ UNCHANGED <<cmpVars, parseVars>>

\* compareDecimals: minMaxDecimals reads the two slices
CompareMinMax(t) ==
    LET c == call[t]
    IN  /\ c.pc = "minmax"
        /\ call' = [call EXCEPT ![t].pc = "loop",
                                ![t].mm = minMaxDecimals(DecimalView(c.a), DecimalView(c.b))]
        /\ UNCHANGED <<vers, intArrs, ptrArrs, bigs, tmp>>
        /\ UNCHANGED <<cmpVars, parseVars>>

\* compareDecimals: the loops index v1.Decimal and v2.Decimal again; a panic
\* ends the goroutine before the Decimal field is cleared
CompareLoop(t) ==
    LET c == call[t]
        r == compareDecimalsLoop(DecimalView(c.a), DecimalView(c.b), c.mm, 0)
    IN  /\ c.pc = "loop"
        /\ call' = [call EXCEPT ![t].cmp = r,
                                ![t].pc = IF r = Panicked THEN "panicked"
                                          ELSE IF c.target # 0 THEN "restore"
                                          ELSE "returned"]
        /\ UNCHANGED <<vers, intArrs, ptrArrs, bigs, tmp>>
        /\ UNCHANGED <<cmpVars, parseVars>>

\* mutant: the promoted slice is left in the Version
CompareRestoreKeep(t) ==
    LET c == call[t]
    IN  /\ c.pc = "restore"
        /\ call' = [call EXCEPT ![t].pc = "returned"]
        /\ UNCHANGED <<vers, intArrs, ptrArrs, bigs, tmp>>
        /\ UNCHANGED <<cmpVars, parseVars>>

\* v.Decimal = nil; return cmp
CompareRestore(t) ==
    LET c == call[t]
    IN  /\ c.pc = "restore"
        /\ vers' = [vers EXCEPT ![c.target].Decimal = NilHdr]
        /\ call' = [call EXCEPT ![t].pc = "returned"]
        /\ UNCHANGED <<intArrs, ptrArrs, bigs, tmp>>
        /\ UNCHANGED <<cmpVars, parseVars>>

\* the caller has the result; the promoted array is garbage
CompareReturn(t) ==
    /\ call[t].pc = "returned"
    /\ call' = [call EXCEPT ![t] = Idle]
    /\ tmp' = [tmp EXCEPT ![t] = <<>>]
    /\ UNCHANGED <<vers, intArrs, ptrArrs, bigs>>
    /\ UNCHANGED <<cmpVars, parseVars>>

CompareStep(t) ==
    \/ CompareBranch(t)
    \/ ComparePromote(t)
    \/ CompareMinMax(t)
    \/ CompareLoop(t)
    \/ CompareRestore(t)
    \/ CompareReturn(t)

\* ------------------------------------- Spec: one operation at a time
SeqNext ==
    \/ \E v \in 1..MaxVersions : Clone(v)
    \/ \E t \in Threads, a \in 1..MaxVersions, b \in 1..MaxVersions : StartCompareAlone(t, a, b)
    \/ \E t \in Threads : CompareStep(t)

SpecSeq == HeapInit /\ [][SeqNext]_vars

\* ------------------------------------- Spec: Clone and later writes
CloneNext ==
    \/ \E v \in 1..MaxVersions : Clone(v)
    \/ \E v \in 1..MaxVersions, i \in 1..MaxSegs, val \in HIntVals : SetIntSegment(v, i, val)
    \/ \E v \in 1..MaxVersions, i \in 1..MaxSegs, val \in HDecVals : SetDecimalSegment(v, i, val)

SpecClone == HeapInit /\ [][CloneNext]_vars

\* ------------------------------------- Spec: concurrent Compare calls
ConcNext ==
    \/ \E t \in Threads, a \in 1..MaxVersions, b \in 1..MaxVersions : StartCompare(t, a, b)
    \/ \E t \in Threads : CompareStep(t)

SpecConc == HeapInit /\ [][ConcNext]_vars

\* ============================================================ Spec: parsers
MaxInput == 3
MaxSlice == 2

ShortAlphabet == {"0", "1", ".", "-", "_", "v", "a", "e", "'", " "}

\* longer inputs taken from the package's tests
SampleInputs ==
    { <<"1", ".", "0", "-", "a", "l", "p", "h", "a">>,
      <<"1", ".", "0", "b", "e", "t">>,
      <<"1", ".", "0", "0", "2", "0", "0", "3">>,
      <<"8", "2", ".", "2", "_", "4", "5", "6", "8">>,
      <<"v", "1", ".", "2", ".", "3">>,
      <<"v", "1", ".", "2", ".", "3", "-", "2", "0", "1", "9", "1", "1", "0", "9", "0", "2", "1", "9", "3", "1", "-", "d", "a", "a", "7", "c", "0", "4", "1", "3", "1", "f", "5">>,
      <<"1", "0", "0", "0", "0", "0", "0", "0", "0", "0", "0", "0", "0", "0", "0", "0", "0", "0", "0", "0", "0", "0">>,
      <<"v", "1", ".", "0", ".", "0">>,
      <<"0", ".", "0", ".", "0">>,
      <<"1", ".", "0", ".", "p", "o", "s", "t", "1">>,
      <<"1", "!", "2", ".", "0", "r", "c", "1">>,
      <<"1", "+", "a", "b", "c", ".", "5">>,
      <<"2", ".", "6", ".", "0", "-", "0", ".", "1">>,
      <<"1", ".", "1", ".", "1", ".", "1", ".", "1", ".", "1", ".", "1", ".", "1", ".", "1", ".", "1", ".", "1", ".", "1", ".", "1", ".", "1", ".", "1", ".", "1">> }

Inputs == SeqsUpTo(ShortAlphabet, MaxInput) \cup SampleInputs

\* strings a parser may hand to fromStringSlice, and some it never should
SegmentStrings ==
    { <<"0">>,
      <<"1">>,
      <<"-", "1">>,
      <<"0", ".", "5">>,
      <<"0", "0">>,
      <<>>,
      <<"a">>,
      <<".">>,
      <<"1", "0", "0", "0", "0", "0", "0", "0", "0", "0", "0", "0", "0", "0", "0", "0", "0", "0", "0", "0", "0", "0">>,
      <<"9", "7", ".", "0", "0", "0", "0", "0", "0", "0", "0", "9", "8">> }

SliceInputs == SeqsUpTo(SegmentStrings, MaxSlice)

ParseInit ==
    /\ NoCmp
    /\ NoHeap
    /\ out = Failure
    /\ json = NoJSON
    /\ NoPair
    /\ \/ (pcall = "string" /\ input \in Inputs /\ strs = <<>>)
       \/ (pcall = "slice" /\ input = <<"x">> /\ strs \in SliceInputs)

CallParseGeneric ==
    /\ pcall = "string"
    /\ pcall' = "ParseGeneric"
    /\ out' = ParseGeneric(input)
    /\ UNCHANGED <<input, strs, json, pairVars, cmpVars, heapVars>>

CallParseGo ==
    /\ pcall = "string"
    /\ pcall' = "ParseGo"
    /\ out' = ParseGo(input)
    /\ UNCHANGED <<input, strs, json, pairVars, cmpVars, heapVars>>

CallParsePerl ==
    /\ pcall = "string"
    /\ pcall' = "ParsePerl"
    /\ out' = ParsePerl(input)
    /\ UNCHANGED <<input, strs, json, pairVars, cmpVars, heapVars>>

CallParsePython ==
    /\ pcall = "string"
    /\ pcall' = "ParsePython"
    /\ out' = ParsePython(input)
    /\ UNCHANGED <<input, strs, json, pairVars, cmpVars, heapVars>>

\* the last step of every parser: fromStringSlice on the strings it built
CallFromStringSlice(pa) ==
    /\ pcall = "slice"
    /\ pcall' = "fromStringSlice"
    /\ out' = fromStringSlice(pa, input, strs)
    /\ UNCHANGED <<input, strs, json, pairVars, cmpVars, heapVars>>

\* json.Marshal of the Version a parser returned
CallMarshalJSON ==
    /\ pcall \notin {"off", "string", "slice"}
    /\ ~out.err
    /\ json = NoJSON
    /\ json' = MarshalJSON(out.v)
    /\ UNCHANGED <<input, strs, pcall, out, pairVars, cmpVars, heapVars>>

ParseNext ==
    \/ CallMarshalJSON
    \/ CallParseGeneric
    \/ CallParseGo
    \/ CallParsePerl
    \/ CallParsePython
    \/ \E pa \in {"SemVer", "PHP", "PythonPEP440", "PythonLegacy", "Ruby"} :
          CallFromStringSlice(pa)

SpecParse == ParseInit /\ [][ParseNext]_vars

\* a parse function has returned a Version
Parsed == pcall \notin {"off", "string", "slice"} /\ ~out.err

\* the segment sequence of a value-level Version
SegmentsOf(v) == IF ~v.Decimal.isNil THEN v.Decimal.elems ELSE v.Ints.elems

\* the canonical decimal string of a segment of a value-level Version
SegmentString(v, i) ==
    IF ~v.Decimal.isNil THEN BigToStr(v.Decimal.elems[i])
    ELSE Int64ToJSON(v.Ints.elems[i]).text

\* ===================================================== Spec: SemVer pairs
MaxIds == 2

RECURSIVE Join(_, _)
\* strings.Join(parts, sep)
Join(parts, sep) ==
    IF parts = <<>> THEN <<>>
    ELSE IF Len(parts) = 1 THEN parts[1]
    ELSE parts[1] \o sep \o Join(Tail(parts), sep)

SemVerCores == { <<"0", ".", "0", ".", "0">>, <<"1", ".", "2", ".", "3">> }

\* pre-release identifiers: numeric, alphabetic, with a hyphen
SemVerIds == { <<"0">>,
      <<"2", "0", "0", "0", "0", "0", "0">>,
      <<"a">>,
      <<"4", "-", "f", "o", "o">> }

SemVerPreReleases == SeqsUpTo(SemVerIds, MaxIds)

SemVerString(core, ids, build) ==
    core \o (IF ids = <<>> THEN <<>> ELSE <<"-">> \o Join(ids, <<".">>)) \o build

\* inputs from TestParseSemVer, with build metadata
SemVerSamples ==
    { <<"1", ".", "2", ".", "3", "-", "5">>,
      <<"1", ".", "2", ".", "3", "-", "a", ".", "1">>,
      <<"1", ".", "2", ".", "3", "+", "i", "g", "n", "o", "r", "e", "d">>,
      <<"1", ".", "2", ".", "3", "-", "a", ".", "1", "+", "i", "g", "n", "o", "r", "e", "d">>,
      <<"1", ".", "2", ".", "3", "-", "a", "l", "p", "h", "a">> }

\* strings the regexp rejects
SemVerInvalid == { <<"1", ".", "0">>, <<"0", "1", ".", "2", ".", "3">>, <<"1", ".", "2", ".", "3", "-", "0", "1">> }

SemVerInit ==
    /\ NoCmp
    /\ NoHeap
    /\ strs = <<>> /\ json = NoJSON
    /\ pcall = "pair"
    /\ out = Failure /\ out2 = Failure /\ cmp = NotCompared
    /\ \E core \in SemVerCores :
          /\ input \in {SemVerString(core, ids, <<>>) : ids \in SemVerPreReleases}
                       \cup SemVerSamples \cup SemVerInvalid
          /\ input2 \in {SemVerString(core, ids, <<>>) : ids \in SemVerPreReleases}

\* both strings are parsed by the same function, as parseOrFatalSemVer does
ParsePair(p, parsed, parsed2) ==
    /\ pcall = "pair"
    /\ pcall' = p
    /\ out' = parsed
    /\ out2' = parsed2
    /\ UNCHANGED <<input, input2, strs, json, cmp, cmpVars, heapVars>>

ComparePair ==
    /\ pcall \in {"ParseSemVer", "ParseGeneric", "ParsePerl", "ParsePython",
                 "ParseGo", "ParsePHP", "ParseRuby"}
    /\ ~out.err /\ ~out2.err
    /\ cmp = NotCompared
    /\ cmp' = Compare(out.v, out2.v)
    /\ UNCHANGED <<input, input2, strs, json, pcall, out, out2, cmpVars, heapVars>>

SemVerNext ==
    \/ ParsePair("ParseSemVer", ParseSemVer(input), ParseSemVer(input2))
    \/ ComparePair

SpecSemVer == SemVerInit /\ [][SemVerNext]_vars

\* the pre-release identifiers of a SemVer string, <<>> when there are none
PreReleaseIds(version) ==
    IF semVerRegEx(version).prerelease = <<>> THEN <<>>
    ELSE Split(semVerRegEx(version).prerelease, ".")

SameTriple(a, b) ==
    /\ semVerRegEx(a).major = semVerRegEx(b).major
    /\ semVerRegEx(a).minor = semVerRegEx(b).minor
    /\ semVerRegEx(a).patch = semVerRegEx(b).patch

SemVerCompared == pcall = "ParseSemVer" /\ cmp # NotCompared

\* the segments of a value-level Version as canonical decimal strings
SegmentsAsStrings(v) == [i \in 1..Len(SegmentsOf(v)) |-> SegmentString(v, i)]

\* ================================================ Spec: Generic pre-releases
\* the 26 pre-release names in the order they are listed, lowest first
ListedNames ==
    << <<"a", "l", "p", "h", "a">>,
       <<"b", "e", "t", "a">>,
       <<"g", "a", "m", "m", "a">>,
       <<"d", "e", "l", "t", "a">>,
       <<"e", "p", "s", "i", "l", "o", "n">>,
       <<"z", "e", "t", "a">>,
       <<"e", "t", "a">>,
       <<"t", "h", "e", "t", "a">>,
       <<"i", "o", "t", "a">>,
       <<"k", "a", "p", "p", "a">>,
       <<"l", "a", "m", "b", "d", "a">>,
       <<"m", "u">>,
       <<"n", "u">>,
       <<"x", "i">>,
       <<"o", "m", "i", "c", "r", "o", "n">>,
       <<"p", "i">>,
       <<"r", "h", "o">>,
       <<"s", "i", "g", "m", "a">>,
       <<"t", "a", "u">>,
       <<"u", "p", "s", "i", "l", "o", "n">>,
       <<"p", "h", "i">>,
       <<"c", "h", "i">>,
       <<"p", "s", "i">>,
       <<"o", "m", "e", "g", "a">>,
       <<"p", "r", "e">>,
       <<"r", "c">> >>

\* base versions made of numeric segments
GenericBases == { <<"0">>, <<"1", ".", "0">>, <<"2", ".", "1", "0", ".", "3">> }

\* every other letter in upper case
MixCase(s) ==
    [i \in 1..Len(s) |-> IF i % 2 = 1 /\ IsLower(s[i])
                          THEN UpperChars[IndexOf(LowerChars, s[i])]
                          ELSE s[i]]

\* B-name and B-name.1
PreReleasesOf(base, name) ==
    { base \o <<"-">> \o name, base \o <<"-">> \o name \o <<".", "1">> }

GenericInit ==
    /\ NoCmp
    /\ NoHeap
    /\ strs = <<>> /\ json = NoJSON
    /\ pcall = "pair"
    /\ out = Failure /\ out2 = Failure /\ cmp = NotCompared
    /\ \E base \in GenericBases :
          /\ input \in {base}
                \cup UNION {PreReleasesOf(base, ListedNames[i]) : i \in DOMAIN ListedNames}
                \cup UNION {PreReleasesOf(base, MixCase(ListedNames[i])) :
                               i \in DOMAIN ListedNames}
          /\ input2 \in {base}
                \cup UNION {PreReleasesOf(base, ListedNames[i]) : i \in DOMAIN ListedNames}

GenericNext ==
    \/ ParsePair("ParseGeneric", ParseGeneric(input), ParseGeneric(input2))
    \/ ComparePair

SpecGeneric == GenericInit /\ [][GenericNext]_vars

\* where a string B, B-name or B-name.1 stands in the listed order:
\* <<position of the name, 0 or 1>>, the bare base after all names
ListedRank(version) ==
    LET dash == FirstIndex(version, "-")
        tail == Split(SubSeq(version, dash + 1, Len(version)), ".")
    IN  IF dash > Len(version) THEN <<Len(ListedNames) + 1, 0>>
        ELSE <<CHOOSE i \in DOMAIN ListedNames : ListedNames[i] = ToLower(tail[1]),
               Len(tail) - 1>>

RankSign(a, b) ==
    IF a[1] # b[1] THEN (IF a[1] < b[1] THEN -1 ELSE 1)
    ELSE IF a[2] # b[2] THEN (IF a[2] < b[2] THEN -1 ELSE 1)
    ELSE 0

\* ================================================= Spec: Perl decimal forms
MaxFraction == 4

PerlIntegerParts == { <<>>, <<"0">>, <<"1">>, <<"0", "1">> }
PerlFractionDigits == {"0", "2", "3"}
PerlFractions == SeqsUpTo(PerlFractionDigits, MaxFraction)
\* how the string goes on after the integer part: nothing, a dot, or (after
\* "+") a dot, the fraction and these characters
PerlAlphaParts == { <<"">>, <<".">>, <<"+">>, <<"+", "_", "3">>, <<"+", "_", "0", "4">> }

\* the value of a three-digit group, printed in base 10
GroupValue(g) ==
    NatToStr(100 * DigitVal(g[1]) + 10 * DigitVal(g[2]) + DigitVal(g[3]))

\* the values of the consecutive three-digit groups of f, f first padded on
\* the right with zeros to a multiple of three digits
GroupValues(f) ==
    LET n == (Len(f) + 2) \div 3
        padded == f \o [i \in 1..(3 * n - Len(f)) |-> "0"]
    IN  [g \in 1..n |-> GroupValue(SubSeq(padded, 3 * g - 2, 3 * g))]

\* the v-string whose components are the integer part and the group values
VStringOf(int, f) ==
    <<"v">> \o Join(<<IF int = <<>> THEN <<"0">> ELSE int>> \o GroupValues(f), <<".">>)

PerlInit ==
    /\ NoCmp
    /\ NoHeap
    /\ strs = <<>> /\ json = NoJSON
    /\ pcall = "pair"
    /\ out = Failure /\ out2 = Failure /\ cmp = NotCompared
    /\ \E int \in PerlIntegerParts, f \in PerlFractions, alpha \in PerlAlphaParts :
          /\ (f = <<>> => (int # <<>> /\ alpha[1] \in {"", "."}))
          /\ (f # <<>> => alpha[1] = "+")
          /\ input = (IF f = <<>> THEN int \o SelectSeq(alpha, LAMBDA c : c # "")
                      ELSE int \o <<".">> \o f \o Tail(alpha))
          /\ input2 = VStringOf(int, f \o SelectSeq(Tail(alpha), LAMBDA c : c # "_"))

PerlNext ==
    \/ ParsePair("ParsePerl", ParsePerl(input), ParsePerl(input2))
    \/ ComparePair

SpecPerl == PerlInit /\ [][PerlNext]_vars

\* the integer part and the fraction digits (alpha digits included) of a
\* decimal version string
PerlIntegerPart(version) == Split(version, ".")[1]
PerlFraction(version) ==
    IF Len(Split(version, ".")) = 2
    THEN SelectSeq(Split(version, ".")[2], LAMBDA c : c # "_")
    ELSE <<>>

RECURSIVE DropTrailingZeroStrings(_)
DropTrailingZeroStrings(segs) ==
    IF segs # <<>> /\ segs[Len(segs)] = <<"0">>
    THEN DropTrailingZeroStrings(SubSeq(segs, 1, Len(segs) - 1))
    ELSE segs

\* =================================================================== claims
\* the length of the longest common prefix of two segment sequences
RECURSIVE CommonPrefix(_, _, _)
CommonPrefix(a, b, n) ==
    IF n < Len(a) /\ n < Len(b) /\ a[n + 1] = b[n + 1]
    THEN CommonPrefix(a, b, n + 1)
    ELSE n

Min(a, b) == IF a < b THEN a ELSE b

\* the first non-zero element of s after position n, or 0
RECURSIVE FirstNonZeroAfter(_, _)
FirstNonZeroAfter(s, n) ==
    IF n >= Len(s) THEN 0
    ELSE IF s[n + 1] # 0 THEN s[n + 1]
    ELSE FirstNonZeroAfter(s, n + 1)

\* C1: Compare is antisymmetric: the sign of Compare(x, y) is the negation of
\* the sign of Compare(y, x), in either representation and at any lengths.
C1_Antisymmetric ==
    cpc = "done" => Sign(rxy) = 0 - Sign(ryx)

C1_Witness ==
    /\ cpc = "done"
    /\ rxy = -1 /\ ryx = 1
    /\ x.Decimal.isNil /\ ~y.Decimal.isNil
    /\ Len(x.Ints.elems) < Len(y.Decimal.elems)

\* C2: Compare is transitive: Compare(x,y) <= 0 and Compare(y,z) <= 0 imply
\* Compare(x,z) <= 0, strictly if either premise is strict.
C2_Transitive ==
    (cpc = "done" /\ rxy <= 0 /\ ryz <= 0) =>
        /\ rxz <= 0
        /\ (rxy < 0 \/ ryz < 0) => rxz < 0

C2_Witness ==
    /\ cpc = "done"
    /\ rxy = 0 /\ ryz < 0 /\ rxz < 0
    /\ Len(Segs(x)) # Len(Segs(y)) /\ Len(Segs(y)) # Len(Segs(z))
    /\ x.Decimal.isNil # y.Decimal.isNil

\* C3: Compare(x, y) is 0 exactly when the segment sequences of x and y are
\* identical once all trailing zero segments are removed from both.
C3_EqualIffSameTrimmed ==
    cpc = "done" =>
        ((rxy = 0) <=> (StripAllTrailingZeros(Segs(x)) = StripAllTrailingZeros(Segs(y))))

C3_Witness ==
    /\ cpc = "done"
    /\ rxy = 0
    /\ Len(Segs(x)) = 1 /\ Len(Segs(y)) = 2
    /\ Segs(x)[1] # 0

\* C4: Compare(x, y) is the sign of x[i] - y[i] at the first differing index
\* of the common length; with an equal common prefix it is the sign of the
\* first non-zero element of the longer tail, negated when y is the longer.
C4_FirstDifference ==
    cpc = "done" =>
        LET a == Segs(x)
            b == Segs(y)
            n == Min(Len(a), Len(b))
            k == CommonPrefix(a, b, 0)
        IN  IF k < n THEN rxy = Sign(a[k + 1] - b[k + 1])
            ELSE IF Len(a) > Len(b) THEN rxy = Sign(FirstNonZeroAfter(a, n))
            ELSE IF Len(b) > Len(a) THEN rxy = 0 - Sign(FirstNonZeroAfter(b, n))
            ELSE rxy = 0

C4_Witness ==
    /\ cpc = "done"
    /\ rxy = 1
    /\ Len(Segs(y)) > Len(Segs(x))
    /\ CommonPrefix(Segs(x), Segs(y), 0) = Len(Segs(x))
    /\ Len(Segs(x)) > 0

\* C5: Compare is a pure function of its two arguments: when a call returns,
\* Original, ParsedAs, Ints and Decimal of both arguments are what they were
\* when the call was entered, and the result is that of the arguments alone.
C5_CompareLeavesArguments ==
    \A t \in Threads :
        call[t].pc = "returned" =>
            /\ <<vers[call[t].a], View(call[t].a), vers[call[t].b], View(call[t].b)>>
                   = call[t].before
            /\ call[t].cmp = Compare(call[t].before[2], call[t].before[4])

C5_Witness ==
    \E t \in Threads :
        /\ call[t].pc = "returned"
        /\ call[t].target = call[t].a
        /\ call[t].a # call[t].b
        /\ call[t].cmp # 0

\* C6: Compare calls may run concurrently on shared Versions: every call
\* returns the result it returns when run alone, and no call reads a Version
\* whose Decimal field another call has set for the time being.
C6_ConcurrentCompare ==
    \A t \in Threads :
        /\ call[t].pc \in {"returned", "panicked"} => call[t].cmp = call[t].alone
        /\ call[t].pc \in {"branch", "minmax", "loop"} =>
              \A v \in {call[t].a, call[t].b} :
                  (~vers[v].Decimal.isNil /\ vers[v].Decimal.arr < 0)
                      => vers[v].Decimal.arr = 0 - t

\* the result part of C6 on its own
C6_ResultAsAlone ==
    \A t \in Threads :
        call[t].pc \in {"returned", "panicked"} => call[t].cmp = call[t].alone

\* the segments of the Version at address v
Segments(v) == <<IntsView(v), DecimalView(v)>>

\* C10: Clone yields an independent deep copy: right after v2 = v1.Clone()
\* Compare(v1, v2) is 0 and Original and ParsedAs agree; a later change to a
\* segment of one Version leaves the segments of every other Version as
\* they were.
C10_CloneIndependent ==
    [][ /\ \A v \in 1..MaxVersions, n \in 1..MaxVersions :
              (Clone(v) /\ n = Len(vers) + 1) =>
                  ( /\ Compare(View(v), View(n)) = 0
                    /\ Compare(View(n), View(v)) = 0
                    /\ vers[n].Original = vers[v].Original
                    /\ vers[n].ParsedAs = vers[v].ParsedAs
                    /\ Segments(n) = Segments(v) )'
        /\ \A v \in 1..MaxVersions, i \in 1..MaxSegs :
              ( \/ \E val \in HIntVals : SetIntSegment(v, i, val)
                \/ \E val \in HDecVals : SetDecimalSegment(v, i, val) ) =>
                  /\ Segments(v)' # Segments(v)
                  /\ \A w \in 1..Len(vers) : w # v => Segments(w)' = Segments(w)
      ]_vars

C10_Witness ==
    /\ Len(vers) = 3
    /\ vers[3].Original = vers[2].Original
    /\ ~vers[3].Decimal.isNil
    /\ Len(DecimalView(3).elems) = Len(DecimalView(2).elems)
    /\ DecimalView(3) # DecimalView(2)

\* C7: every Version a parser returns without error has a non-empty segment
\* sequence; trimming trailing zeros never leaves fewer than one element.
C7_SegmentsNonEmpty ==
    Parsed => Len(SegmentsOf(out.v)) >= 1

C7_Witness ==
    /\ Parsed
    /\ pcall = "fromStringSlice"
    /\ Len(strs) = 2
    /\ Len(SegmentsOf(out.v)) = 1
    /\ ~out.v.Decimal.isNil

\* C8: after any successful parse the Decimal field of the Version holds at
\* least one element.
C8_DecimalNonEmpty ==
    Parsed => (~out.v.Decimal.isNil /\ Len(out.v.Decimal.elems) >= 1)

\* C9: the Original field of a parsed Version is exactly the string passed to
\* the parse function.
C9_OriginalIsInput ==
    (Parsed /\ pcall # "fromStringSlice") => out.v.Original = input

\* C11: a Version serializes to an object with exactly the keys "version",
\* holding the original input, and "sortable_version", an array of strings,
\* one canonical decimal string per segment in order.
C11_JSONShape ==
    json # NoJSON =>
        /\ json.keys = <<"version", "sortable_version">>
        /\ json.version = (IF pcall = "fromStringSlice" THEN out.v.Original ELSE input)
        /\ Len(json.sortable_version) = Len(SegmentsOf(out.v))
        /\ \A i \in 1..Len(json.sortable_version) :
              /\ json.sortable_version[i].kind = "string"
              /\ json.sortable_version[i].text = SegmentString(out.v, i)

\* C11 apart from the original string: every element is a JSON string
C11_ElementsAreStrings ==
    json # NoJSON =>
        \A i \in 1..Len(json.sortable_version) :
            json.sortable_version[i].kind = "string"

\* C12: a released version orders strictly above every pre-release of the
\* same major.minor.patch triple.
C12_ReleaseAbovePreRelease ==
    (/\ SemVerCompared
     /\ SameTriple(input, input2)
     /\ PreReleaseIds(input) # <<>>
     /\ PreReleaseIds(input2) = <<>>) => cmp < 0

\* C13: ParseSemVer emits major, minor, patch and, for a pre-release, a -1
\* marker before the identifiers: "1.2.3" gives [1, 2, 3] and "1.2.3-a.1"
\* gives [1, 2, 3, -1, 97, 0, 1, -1].
C13_SemVerSegments ==
    (pcall = "ParseSemVer" /\ ~out.err) =>
        /\ (PreReleaseIds(input) = <<>> =>
               SegmentsAsStrings(out.v) = <<semVerRegEx(input).major,
                                         semVerRegEx(input).minor,
                                         semVerRegEx(input).patch>>)
        /\ (PreReleaseIds(input) # <<>> =>
               /\ Len(SegmentsAsStrings(out.v)) >= 4
               /\ SegmentsAsStrings(out.v)[4] = <<"-", "1">>)
        /\ (input = <<"1", ".", "2", ".", "3", "-", "a", ".", "1">> =>
               SegmentsAsStrings(out.v) =
                   <<<<"1">>, <<"2">>, <<"3">>, <<"-", "1">>, <<"9", "7">>,
                     <<"0">>, <<"1">>, <<"-", "1">>>>)

\* the first position where two identifier lists differ, 0 when one is a
\* prefix of the other
FirstDifference(a, b) ==
    IF \E k \in 1..Min(Len(a), Len(b)) : a[k] # b[k]
    THEN CHOOSE k \in 1..Min(Len(a), Len(b)) :
             a[k] # b[k] /\ \A j \in 1..(k - 1) : a[j] = b[j]
    ELSE 0

\* C14: with the same triple, where the pre-release identifiers first differ
\* and one is numeric and the other alphanumeric, the numeric one is lower.
C14_NumericBelowAlphanumeric ==
    LET a == PreReleaseIds(input)
        b == PreReleaseIds(input2)
        k == FirstDifference(a, b)
    IN  (/\ SemVerCompared
         /\ SameTriple(input, input2)
         /\ k > 0
         /\ IsDigits(a[k])
         /\ ~IsDigits(b[k])) => cmp < 0

\* C15: with the same triple, a pre-release whose identifier list properly
\* extends another's compares strictly greater than the shorter one.
C15_LongerPreReleaseGreater ==
    LET a == PreReleaseIds(input)
        b == PreReleaseIds(input2)
    IN  (/\ SemVerCompared
         /\ SameTriple(input, input2)
         /\ a # <<>>
         /\ Len(a) < Len(b)
         /\ SubSeq(b, 1, Len(a)) = a) => cmp < 0

C17_GenericPreReleaseOrder ==
    (pcall = "ParseGeneric" /\ cmp # NotCompared) =>
        cmp = RankSign(ListedRank(input), ListedRank(input2))

C17_Witness ==
    /\ pcall = "ParseGeneric"
    /\ input = <<"1", ".", "0", "-", "A", "l", "P", "h", "A", ".", "1">>
    /\ input2 = <<"1", ".", "0", "-", "b", "e", "t", "a">>
    /\ cmp = -1

\* C18: every Version returned by ParsePerl has at least three segments.
C18_PerlAtLeastThreeSegments ==
    (pcall = "ParsePerl" /\ ~out.err) => Len(SegmentsOf(out.v)) >= 3

C20_PEP440SegmentLayout ==
    (pcall = "ParsePython" /\ ~out.err /\ out.v.ParsedAs = "PythonPEP440") =>
        Len(SegmentsOf(out.v)) =
            22 + Len(pep440LocalSegments(pep440Matches(input).m))

\* ------------------------------------------------------------ Spec Python
\* pairs of Python versions, parsed and compared as TestParsePythonOrdering
\* does
PEP440Releases == {<<"1", ".", "0">>, <<"0">>, <<"1", "!", "2", ".", "1", "0", ".", "3">>}

PEP440Numbers == {<<"0">>, <<"1", "2">>}

\* the k-th of R.dev(n), R a(n).dev(m), R a(n), R, R.post(n).dev(m), R.post(n)
PEP440Form(R, k, n, m) ==
    CASE k = 1 -> R \o <<".", "d", "e", "v">> \o n
      [] k = 2 -> R \o <<"a">> \o n \o <<".", "d", "e", "v">> \o m
      [] k = 3 -> R \o <<"a">> \o n
      [] k = 4 -> R
      [] k = 5 -> R \o <<".", "p", "o", "s", "t">> \o n \o <<".", "d", "e", "v">> \o m
      [] k = 6 -> R \o <<".", "p", "o", "s", "t">> \o n

PEP440Forms ==
    {PEP440Form(R, k, n, m) : R \in PEP440Releases, k \in 1..6,
                              n \in PEP440Numbers, m \in PEP440Numbers}

LegacyPythonSamples ==
    { <<>>,
      <<"a">>,
      <<" ", " ", "h", "m", "m">>,
      <<"1", ".", "1", "3", "+", "+">>,
      <<"2", ".", "6", ".", "0", "-", "0", ".", "1">>,
      <<"0", "1", "2", "g">> }

PythonInit ==
    /\ NoCmp
    /\ NoHeap
    /\ strs = <<>> /\ json = NoJSON
    /\ pcall = "pair"
    /\ out = Failure /\ out2 = Failure /\ cmp = NotCompared
    /\ input \in PEP440Forms \cup LegacyPythonSamples
    /\ input2 \in PEP440Forms \cup LegacyPythonSamples

PythonNext ==
    \/ ParsePair("ParsePython", ParsePython(input), ParsePython(input2))
    \/ ComparePair

SpecPython == PythonInit /\ [][PythonNext]_vars

\* C21: for a PEP 440 release R and any numbers, R.dev(n) < R a(n).dev(m) <
\* R a(n) < R < R.post(n).dev(m) < R.post(n) under Compare, in either
\* argument order.
C21_PEP440PhaseOrder ==
    (pcall = "ParsePython" /\ cmp # NotCompared) =>
        \A R \in PEP440Releases, k1 \in 1..6, k2 \in 1..6 :
            \A n \in PEP440Numbers, m1 \in PEP440Numbers, m2 \in PEP440Numbers :
                (/\ input = PEP440Form(R, k1, n, m1)
                 /\ input2 = PEP440Form(R, k2, n, m2)
                 /\ k1 # k2)
                => /\ out.v.ParsedAs = "PythonPEP440"
                   /\ out2.v.ParsedAs = "PythonPEP440"
                   /\ cmp = (IF k1 < k2 THEN -1 ELSE 1)

C21_Witness ==
    /\ pcall = "ParsePython"
    /\ input = <<"1", ".", "0", ".", "d", "e", "v", "0">>
    /\ input2 = <<"1", ".", "0", "a", "0">>
    /\ cmp = -1

\* C22: a Version parsed as legacy Python has first segment -1 and compares
\* strictly below every Version parsed as PEP 440, in either argument order.
C22_LegacyBelowPEP440 ==
    (pcall = "ParsePython" /\ cmp # NotCompared) =>
        /\ (out.v.ParsedAs = "PythonLegacy" =>
                SegmentString(out.v, 1) = <<"-", "1">>)
        /\ (out.v.ParsedAs = "PythonLegacy" /\ out2.v.ParsedAs = "PythonPEP440")
               => cmp = -1
        /\ (out.v.ParsedAs = "PythonPEP440" /\ out2.v.ParsedAs = "PythonLegacy")
               => cmp = 1

C22_Witness ==
    /\ pcall = "ParsePython"
    /\ input = <<"2", ".", "6", ".", "0", "-", "0", ".", "1">>
    /\ out.v.ParsedAs = "PythonLegacy"
    /\ input2 = <<"0", ".", "d", "e", "v", "0">>
    /\ out2.v.ParsedAs = "PythonPEP440"
    /\ cmp = -1

\* C29: ParsePython returns a Version and no error for every input: the
\* PEP 440 result when that parse succeeds, and otherwise the legacy result,
\* a decimal Version whose segments begin with -1 and end with the encoding
\* of "*final".
C29_ParsePythonNeverFails ==
    pcall = "ParsePython" =>
        /\ ~out.err
        /\ (~parsePEP440(input).err => out = parsePEP440(input))
        /\ (parsePEP440(input).err =>
               /\ out.v.ParsedAs = "PythonLegacy"
               /\ Len(SegmentsOf(out.v)) >= 2
               /\ SegmentString(out.v, 1) = <<"-", "1">>
               /\ SegmentString(out.v, Len(SegmentsOf(out.v))) =
                      toDecimalString(legacyFinal))

C29_Witness ==
    /\ pcall = "ParsePython"
    /\ input = <<"1", ".", "1", ".", "1", ".", "1", ".", "1", ".", "1", ".", "1", ".", "1", ".", "1", ".", "1", ".", "1", ".", "1", ".", "1", ".", "1", ".", "1", ".", "1">>
    /\ pep440Matches(input).ok
    /\ parsePEP440(input).err
    /\ ~out.err
    /\ out.v.ParsedAs = "PythonLegacy"

\* -------------------------------------------------------------- Spec Trim
\* trailing-zero trimming applied to the segments of x, the result kept in y,
\* and both compared with z
ZeroTenths == MkBig(FALSE, <<0>>, 1)

TrimVersions ==
    {v \in CmpVersions : SegmentsOf(v) # <<>>}
    \cup {Version(<<>>, NilSlice, Slice(s), "Generic") :
             s \in SeqsUpTo({MkBig(FALSE, <<1, 0>>, 1), ZeroTenths}, MaxLen) \ {<<>>}}

TrimInit ==
    /\ x \in TrimVersions
    /\ y = x
    /\ z \in CmpVersions
    /\ cpc = "ready"
    /\ rxy = 0 /\ ryx = 0 /\ ryz = 0 /\ rxz = 0
    /\ NoHeap
    /\ NoParse

DoTrim ==
    /\ cpc = "ready"
    /\ cpc' = "trimmed"
    /\ y' = (IF ~x.Decimal.isNil
             THEN [x EXCEPT !.Decimal = Slice(trimTrailingZerosDecimals(x.Decimal.elems))]
             ELSE [x EXCEPT !.Ints = Slice(trimTrailingZerosInts(x.Ints.elems))])
    /\ UNCHANGED <<x, z, rxy, ryx, ryz, rxz, heapVars, parseVars>>

CompareTrimmed ==
    /\ cpc = "trimmed"
    /\ cpc' = "done"
    /\ rxz' = Compare(x, z)
    /\ ryz' = Compare(y, z)
    /\ UNCHANGED <<x, y, z, rxy, ryx, heapVars, parseVars>>

TrimNext ==
    \/ DoTrim
    \/ CompareTrimmed

SpecTrim == TrimInit /\ [][TrimNext]_vars

\* a segment of a value-level Version is zero
IsZeroSegment(v, i) ==
    IF ~v.Decimal.isNil THEN BigCmp(v.Decimal.elems[i], bigZero) = 0
    ELSE v.Ints.elems[i] = Int64Zero

AsDecimalVersion(v) ==
    IF ~v.Decimal.isNil THEN v
    ELSE [v EXCEPT !.Ints = NilSlice,
                   !.Decimal = Slice([i \in 1..Len(v.Ints.elems) |->
                                         [neg |-> v.Ints.elems[i].neg,
                                          digits |-> v.Ints.elems[i].mag,
                                          scale |-> 0]])]

\* C28: Compare of two Versions, whatever their representations, has the
\* sign of the comparison of their decimal conversions.
C28_RepresentationIndependent ==
    cpc = "done" =>
        /\ Sign(rxy) = Sign(compareDecimals(AsDecimalVersion(x), AsDecimalVersion(y)))
        /\ Sign(ryx) = Sign(compareDecimals(AsDecimalVersion(y), AsDecimalVersion(x)))

C28_Witness ==
    /\ cpc = "done"
    /\ x.Decimal.isNil /\ y.Decimal.isNil
    /\ Len(x.Ints.elems) = 2 /\ Len(y.Ints.elems) = 1
    /\ x.Ints.elems[2].neg
    /\ rxy = -1
    /\ ~z.Decimal.isNil /\ Len(z.Decimal.elems) = 2
    /\ ryz = 1

\* -------------------------------------------------------------- Spec Life
\* Versions made by fromStringSlice and by Clone, and Compare calls on them,
\* one operation at a time
LifeSlices ==
    { <<<<"1">>>>,
      <<<<"1">>, <<"0">>>>,
      <<<<"0", ".", "5">>, <<"1">>>>,
      <<<<"1", "2", "3", "4", "5", "6", "7", "8", "9", "0", "1", "2", "3", "4", "5", "6", "7", "8", "9">>>>,
      <<<<"x">>>>,
      <<>> }

LifeInit ==
    /\ NoCmp
    /\ vers = <<>> /\ intArrs = <<>> /\ ptrArrs = <<>> /\ bigs = <<>>
    /\ tmp = [t \in Threads |-> <<>>]
    /\ call = [t \in Threads |-> Idle]
    /\ pcall = "slice"
    /\ input = <<>> /\ strs = <<>>
    /\ out = Failure
    /\ json = NoJSON
    /\ NoPair

\* v, err := fromStringSlice(pa, original, s), the returned Version being
\* placed on the heap
ParseToHeap(s) ==
    /\ AllIdle
    /\ Len(vers) < MaxVersions
    /\ pcall' = "fromStringSlice"
    /\ strs' = s
    /\ input' = Join(s, <<".">>)
    /\ out' = fromStringSlice("Generic", input', s)
    /\ IF out'.err THEN UNCHANGED <<vers, intArrs, ptrArrs, bigs>>
       ELSE IF ~out'.v.Decimal.isNil
       THEN /\ bigs' = bigs \o out'.v.Decimal.elems
            /\ ptrArrs' = Append(ptrArrs, [i \in 1..Len(out'.v.Decimal.elems) |->
                                              Len(bigs) + i])
            /\ vers' = Append(vers, [Original |-> out'.v.Original,
                                     Ints |-> IF out'.v.Ints.isNil THEN NilHdr
                                              ELSE Hdr(Len(intArrs) + 1),
                                     Decimal |-> Hdr(Len(ptrArrs) + 1),
                                     ParsedAs |-> out'.v.ParsedAs])
            /\ intArrs' = (IF out'.v.Ints.isNil THEN intArrs
                           ELSE Append(intArrs, out'.v.Ints.elems))
       ELSE /\ intArrs' = Append(intArrs, out'.v.Ints.elems)
            /\ vers' = Append(vers, [Original |-> out'.v.Original,
                                     Ints |-> IF out'.v.Ints.isNil THEN NilHdr
                                              ELSE Hdr(Len(intArrs) + 1),
                                     Decimal |-> NilHdr,
                                     ParsedAs |-> out'.v.ParsedAs])
            /\ UNCHANGED <<ptrArrs, bigs>>
    /\ UNCHANGED <<tmp, call, json, pairVars, cmpVars>>

LifeNext ==
    \/ \E s \in LifeSlices : ParseToHeap(s)
    \/ \E v \in 1..MaxVersions : Clone(v)
    \/ \E t \in Threads, a \in 1..MaxVersions, b \in 1..MaxVersions : StartCompareAlone(t, a, b)
    \/ \E t \in Threads : CompareStep(t)

SpecLife == LifeInit /\ [][LifeNext]_vars

MaxToken == 2

\* code points 32, 48, 100, 233 and 23567
TokenChars == {" ", "0", "d", "e'", "CJK"}

Tokens == SeqsUpTo(TokenChars, MaxToken) \ {<<>>}

EncodeInit ==
    /\ NoCmp
    /\ NoHeap
    /\ json = NoJSON
    /\ out = Failure /\ out2 = Failure /\ cmp = NotCompared
    /\ pcall = "tokens"
    /\ strs = <<>>
    /\ input \in Tokens
    /\ input2 \in Tokens

EncodeTokens ==
    /\ pcall = "tokens"
    /\ pcall' = "toDecimalString"
    /\ strs' = <<toDecimalString(input), toDecimalString(input2)>>
    /\ UNCHANGED <<input, input2, out, out2, cmp, json, cmpVars, heapVars>>

\* decimal.Big values made of the two strings, compared with Cmp
CompareEncoded ==
    /\ pcall = "toDecimalString"
    /\ pcall' = "Cmp"
    /\ SetString(strs[1]).ok /\ SetString(strs[2]).ok
    /\ cmp' = BigCmp(SetString(strs[1]).d, SetString(strs[2]).d)
    /\ UNCHANGED <<input, input2, strs, out, out2, json, cmpVars, heapVars>>

NormalizeEncoded ==
    /\ pcall = "Cmp"
    /\ pcall' = "normalizeDecimal"
    /\ strs' = <<normalizeDecimal(strs[1]), normalizeDecimal(strs[2])>>
    /\ UNCHANGED <<input, input2, out, out2, cmp, json, cmpVars, heapVars>>

EncodeNext ==
    \/ EncodeTokens
    \/ CompareEncoded
    \/ NormalizeEncoded

SpecEncode == EncodeInit /\ [][EncodeNext]_vars

\* the order of two tokens by code points, a proper prefix first: -1, 0, 1
LexicographicOrder(s, t) ==
    IF s = t THEN 0 ELSE IF StringLess(s, t) THEN -1 ELSE 1

\* C30: the decimals of toDecimalString(s) and toDecimalString(t) compare as
\* s and t do in lexicographic order of code points, a proper prefix below
\* its extensions, and the normalised strings have the same order.
C30_EncodingPreservesOrder ==
    /\ pcall \in {"Cmp", "normalizeDecimal"} =>
           cmp = LexicographicOrder(input, input2)
    /\ pcall = "normalizeDecimal" =>
           /\ SetString(strs[1]).ok /\ SetString(strs[2]).ok
           /\ BigCmp(SetString(strs[1]).d, SetString(strs[2]).d) = cmp

C30_Witness ==
    /\ pcall = "normalizeDecimal"
    /\ input = <<"d">>
    /\ input2 = <<"d", "d">>
    /\ strs = <<<<"1", "0", "0">>, <<"1", "0", "0", ".", "0", "0", "0", "0", "0", "0", "0", "1">>>>
    /\ cmp = -1

\* ------------------------------------------------- Spec Go pseudo-versions
\* the bases 1.2.3, 0.0.0, 1.0-alpha and 1.0bet
GoBases ==
    { <<"1", ".", "2", ".", "3">>,
      <<"0", ".", "0", ".", "0">>,
      <<"1", ".", "0", "-", "a", "l", "p", "h", "a">>,
      <<"1", ".", "0", "b", "e", "t">> }

\* the segments the tests list for the bases
GoBaseSegments(base) ==
    CASE base = <<"1", ".", "2", ".", "3">> -> << <<"1">>, <<"2">>, <<"3">> >>
      [] base = <<"0", ".", "0", ".", "0">> -> << <<"0">>, <<"0">>, <<"0">> >>
      [] base = <<"1", ".", "0", "-", "a", "l", "p", "h", "a">> ->
             << <<"1">>, <<"0">>, <<"-", "2", "6">> >>
      [] base = <<"1", ".", "0", "b", "e", "t">> ->
             << <<"1">>, <<"0">>,
                <<"9", "8", ".", "0", "0", "0", "0", "0", "0", "0", "1", "0", "1",
                  "0", "0", "0", "0", "0", "0", "0", "1", "1", "6">> >>

\* 20191109021931, 20191109021932 and fourteen zeros
GoTimestamps ==
    { <<"2", "0", "1", "9", "1", "1", "0", "9", "0", "2", "1", "9", "3", "1">>,
      <<"2", "0", "1", "9", "1", "1", "0", "9", "0", "2", "1", "9", "3", "2">>,
      <<"0", "0", "0", "0", "0", "0", "0", "0", "0", "0", "0", "0", "0", "0">> }

\* daa7c04131f5 and 000000001234
GoHashes ==
    { <<"d", "a", "a", "7", "c", "0", "4", "1", "3", "1", "f", "5">>,
      <<"0", "0", "0", "0", "0", "0", "0", "0", "1", "2", "3", "4">> }

PseudoVersions(base) ==
    { <<"v">> \o base \o <<sep>> \o T \o <<"-">> \o H :
        sep \in {"-", "."}, T \in GoTimestamps, H \in GoHashes }

GoInit ==
    /\ NoCmp
    /\ NoHeap
    /\ strs = <<>> /\ json = NoJSON
    /\ pcall = "pair"
    /\ out = Failure /\ out2 = Failure /\ cmp = NotCompared
    /\ \E base \in GoBases :
          /\ input \in PseudoVersions(base)
          /\ input2 \in PseudoVersions(base)

GoNext ==
    \/ ParsePair("ParseGo", ParseGo(input), ParseGo(input2))
    \/ ComparePair

SpecGo == GoInit /\ [][GoNext]_vars

\* the parts of a pseudo-version: 1 "v", then B, 1 separator, 14 digits,
\* "-" and 12 hex digits
GoBaseOf(version) == SubSeq(version, 2, Len(version) - 28)
GoTimestampOf(version) == SubSeq(version, Len(version) - 26, Len(version) - 13)
GoHashOf(version) == SubSeq(version, Len(version) - 11, Len(version))

\* the segments of B followed by the number T
PseudoVersionSegments(version) ==
    Append(GoBaseSegments(GoBaseOf(version)),
           DigitsToStr(StripLeadingZeros(DigitsOf(GoTimestampOf(version)))))

\* the order of two timestamps of 14 digits: -1, 0, 1
TimestampOrder(t1, t2) ==
    CmpMag(StripLeadingZeros(DigitsOf(t1)), StripLeadingZeros(DigitsOf(t2)))

\* a is b without some trailing "0" segments, and ends "0" only when alone
IsTrimmed(a, b) ==
    /\ Len(a) >= 1 /\ Len(a) <= Len(b)
    /\ a = SubSeq(b, 1, Len(a))
    /\ \A i \in (Len(a) + 1)..Len(b) : b[i] = <<"0">>
    /\ (Len(a) > 1 => a[Len(a)] # <<"0">>)

HashIgnored ==
    cmp # NotCompared =>
        cmp = TimestampOrder(GoTimestampOf(input), GoTimestampOf(input2))

\* C25: ParseGo of "v" + B + sep + T + "-" + H yields the segments of B
\* followed by T with tag Go, and Compare of two pseudo-versions of one base
\* is the order of their timestamps, whatever the hashes are.
C25_GoPseudoVersionSegments ==
    pcall = "ParseGo" =>
        /\ ~out.err /\ ~out2.err
        /\ out.v.ParsedAs = "Go" /\ out2.v.ParsedAs = "Go"
        /\ SegmentsAsStrings(out.v) = PseudoVersionSegments(input)
        /\ SegmentsAsStrings(out2.v) = PseudoVersionSegments(input2)
        /\ HashIgnored

\* C25 (amended): the segments are those of B followed by T less the
\* trailing zero segments, which are all kept unless T is fourteen zeros;
\* the tag is Go and Compare of two pseudo-versions of one base is the order
\* of their timestamps, whatever the hashes are.
C25_GoPseudoVersionTrimmed ==
    pcall = "ParseGo" =>
        /\ ~out.err /\ ~out2.err
        /\ out.v.ParsedAs = "Go" /\ out2.v.ParsedAs = "Go"
        /\ IsTrimmed(SegmentsAsStrings(out.v), PseudoVersionSegments(input))
        /\ IsTrimmed(SegmentsAsStrings(out2.v), PseudoVersionSegments(input2))
        /\ (IsZeroMag(DigitsOf(GoTimestampOf(input))) \/
               SegmentsAsStrings(out.v) = PseudoVersionSegments(input))
        /\ HashIgnored

C25_Witness ==
    /\ pcall = "ParseGo"
    /\ GoBaseOf(input) = <<"0", ".", "0", ".", "0">>
    /\ IsZeroMag(DigitsOf(GoTimestampOf(input)))
    /\ SegmentsAsStrings(out.v) = << <<"0">> >>
    /\ SegmentsAsStrings(out2.v) =
           << <<"0">>, <<"0">>, <<"0">>,
              <<"2", "0", "1", "9", "1", "1", "0", "9", "0", "2", "1", "9", "3", "1">> >>
    /\ GoHashOf(input) # GoHashOf(input2)
    /\ cmp = -1

\* --------------------------------------------------- Spec PHP modifiers
\* classical bases of one to four components
PHPBases ==
    { <<"0">>, <<"1">>, <<"1", ".", "0">>, <<"1", ".", "0", ".", "0">>,
      <<"1", ".", "2", ".", "3", ".", "4">> }

\* the modifiers in the order dev, alpha, beta, RC, none, stable, patch
PHPModifierNames ==
    << <<"d", "e", "v">>, <<"a", "l", "p", "h", "a">>, <<"b", "e", "t", "a">>,
       <<"R", "C">>, <<>>, <<"s", "t", "a", "b", "l", "e">>,
       <<"p", "a", "t", "c", "h">> >>

\* where each modifier stands: stable with the bare base
PHPModifierRank == <<1, 2, 3, 4, 5, 5, 6>>

\* the modifiers a number may follow and still rank by the modifier
PHPNumbered == {2, 3, 4, 7}

\* B, or B sep modifier, followed by ".0" when zero = 1
PHPForm(base, sep, k, zero) ==
    IF PHPModifierNames[k] = <<>> THEN base
    ELSE base \o sep \o PHPModifierNames[k]
         \o (IF zero = 1 THEN <<".", "0">> ELSE <<>>)

PHPForms(base) ==
    { PHPForm(base, sep, k, zero) :
        sep \in {<<"-">>, <<".">>},
        k \in DOMAIN PHPModifierNames,
        zero \in {0, 1} } \ 
    { PHPForm(base, sep, k, 1) :
        sep \in {<<"-">>, <<".">>},
        k \in (DOMAIN PHPModifierNames) \ PHPNumbered }

PHPInit ==
    /\ NoCmp
    /\ NoHeap
    /\ strs = <<>> /\ json = NoJSON
    /\ pcall = "pair"
    /\ out = Failure /\ out2 = Failure /\ cmp = NotCompared
    /\ \E base \in PHPBases :
          /\ input \in PHPForms(base)
          /\ input2 \in PHPForms(base)

PHPNext ==
    \/ ParsePair("ParsePHP", ParsePHP(input), ParsePHP(input2))
    \/ ComparePair

SpecPHP == PHPInit /\ [][PHPNext]_vars

\* C23: for a classical base B, B-dev < B-alpha < B-beta < B-RC < B < B-patch
\* under Compare, B-stable equals B, and a version that ends with a modifier
\* is below the same version followed by 0.
C23_PHPModifierOrder ==
    /\ pcall = "ParsePHP" => ~out.err /\ ~out2.err
    /\ pcall = "ParsePHP" /\ cmp # NotCompared =>
           \A base \in PHPBases :
           \A sep1, sep2 \in {<<"-">>, <<".">>} :
           \A k1, k2 \in DOMAIN PHPModifierNames :
           \A zero1, zero2 \in {0, 1} :
               /\ input = PHPForm(base, sep1, k1, zero1)
               /\ input2 = PHPForm(base, sep2, k2, zero2)
               /\ (zero1 = 1 => k1 \in PHPNumbered)
               /\ (zero2 = 1 => k2 \in PHPNumbered)
               => cmp = RankSign(<<PHPModifierRank[k1], zero1>>,
                                 <<PHPModifierRank[k2], zero2>>)

C23_Witness ==
    /\ pcall = "ParsePHP"
    /\ input = <<"1", ".", "0", ".", "0", ".", "p", "a", "t", "c", "h">>
    /\ input2 = <<"1", ".", "0", ".", "0", ".", "p", "a", "t", "c", "h", ".", "0">>
    /\ SegmentsAsStrings(out.v) =
           << <<"1">>, <<"0">>, <<"0">>, <<"0">>, <<"0", ".", "5">>,
              <<"-", "0", ".", "5">> >>
    /\ SegmentsAsStrings(out2.v) =
           << <<"1">>, <<"0">>, <<"0">>, <<"0">>, <<"0", ".", "5">> >>
    /\ cmp = -1

\* ------------------------------------------------- Spec Ruby token kinds
\* what the two versions have in common: 1, 5.0, 1.8.2 and 0
RubyPrefixes ==
    { <<"1">>, <<"5", ".", "0">>, <<"1", ".", "8", ".", "2">>, <<"0">> }

\* continuations that start with a textual token: .a, .x, .a10, .A.1, -rc
RubyTextTails ==
    { <<".", "a">>, <<".", "x">>, <<".", "a", "1", "0">>,
      <<".", "A", ".", "1">>, <<"-", "r", "c">> }

\* continuations that start with a numeric token, or with none, which
\* stands for 0: nothing, .0, .1, .1.a and .99999999999999999999
RubyNumericTails ==
    { <<>>, <<".", "0">>, <<".", "1">>, <<".", "1", ".", "a">>,
      <<".", "9", "9", "9", "9", "9", "9", "9", "9", "9", "9",
        "9", "9", "9", "9", "9", "9", "9", "9", "9", "9">> }

RubyInit ==
    /\ NoCmp
    /\ NoHeap
    /\ strs = <<>> /\ json = NoJSON
    /\ pcall = "pair"
    /\ out = Failure /\ out2 = Failure /\ cmp = NotCompared
    /\ \E prefix \in RubyPrefixes :
          /\ input \in {prefix \o tail : tail \in RubyTextTails}
          /\ input2 \in {prefix \o tail : tail \in RubyNumericTails}

RubyNext ==
    \/ ParsePair("ParseRuby", ParseRuby(input), ParseRuby(input2))
    \/ ComparePair

SpecRuby == RubyInit /\ [][RubyNext]_vars

\* C24: of two valid Ruby versions that agree up to some token and go on
\* with a textual token in the first and a numeric token, or none, in the
\* second, the first compares strictly lower.
C24_TextBelowNumeric ==
    /\ pcall = "ParseRuby" => ~out.err /\ ~out2.err
    /\ pcall = "ParseRuby" /\ cmp # NotCompared => cmp = -1

====
